---- MODULE Spec2Model ----
(***************************************************************************)
(* Event-to-state projection of the MySocial indexer.                      *)
(*                                                                         *)
(* The relational tables are bags (multisets) of rows, so that a duplicate *)
(* row is representable.  Every handler is one action: it is the whole     *)
(* transaction the Rust code runs for one typed event.  The three domain   *)
(* consumers (profile, platform, social graph) take their events in any    *)
(* interleaving.                                                           *)
(***************************************************************************)
EXTENDS Integers, Sequences, FiniteSets, Bags, TLC

(***************************************************************************)
(* Bounds of the model.                                                    *)
(***************************************************************************)
NumPlatforms == 1
NumProfiles == 2
NumAddrs == 2
NumUsernames == 1
NumOwners == 2
MaxTime == 1
MaxEventTime == 0
MaxPlatformEvents == 5
MaxSocialEvents == 3
MaxProfileEvents == 3
MaxChainEvents == 3
MaxChainTime == 2
BatchSize == 2
ChannelCapacity == 1
MaxDecodedProfiles == 1

PlatformName == <<"p1", "p2", "p3">>
ProfileName == <<"u1", "u2", "u3", "u4">>
AddrName == <<"0xdev", "0xadmin", "0xmod", "0xother">>
UserName == <<"alice", "bob", "carol">>
OwnerName == <<"0xa11ce0000001", "0xb0b000000002", "0xa11ce0000003">>

PlatformIds == {PlatformName[i] : i \in 1..NumPlatforms}
ProfileIds == {ProfileName[i] : i \in 1..NumProfiles}
Addrs == {AddrName[i] : i \in 1..NumAddrs}
Usernames == {UserName[i] : i \in 1..NumUsernames}
OwnerAddrs == {OwnerName[i] : i \in 1..NumOwners}
Times == 0..MaxTime
EventTimes == 0..MaxEventTime
PlatformTitles == {"Alpha", "Beta"}

\* the handlers in the order main registers their channels
HandlerName == <<"profile", "social_graph", "platform">>
Handlers == {HandlerName[i] : i \in 1..3}
Faults == {"none", "decode", "database", "pool"}

\* Option<T>: None is the empty set, Some(x) the singleton.
None == {}
Some(x) == {x}

\* the listener is between two events
NotSending == [event |-> None, next |-> 0]

VARIABLES
    platforms,                  \* bag of platform rows
    platform_moderators,        \* bag of (platform_id, moderator_address) rows
    platform_blocked_profiles,  \* bag of platform-level block rows
    platform_memberships,       \* bag of membership rows
    platform_events,            \* number of rows of the platform event log
    profiles,                   \* bag of profile rows
    social_graph_relationships, \* bag of follow edges
    social_graph_events,        \* number of rows of the social-graph event log
    profiles_blocked,           \* bag of user-level block rows
    profile_events,             \* number of rows of the profile event log
    indexer_progress,           \* the profile listener's progress row, if any
    now,                        \* wall clock read by the handlers
    last,                       \* history: the event processed last
    repeat,                     \* history: how often in a row it was processed
    outcome,                    \* history: the branch the handler took
    everApproved,               \* history: platforms that were approved once
    seenProfiles,               \* history: profile ids a ProfileCreated was processed for
    scenario,                   \* history: progress through the section 8 scenario
    chain,                      \* events the chain emitted since the listener started
    session,                    \* transport of the listener: connecting, ws or polling
    last_seen_timestamp,        \* polling listener: timestamp of the event forwarded last
    rx,                         \* per handler, the events waiting in its channel
    task_running,               \* per handler, whether its consumer task still runs
    forwarded,                  \* history: the events the listener forwarded, in order
    handled,                    \* history: per handler, the events it took, in order
    fault,                      \* history: the failure injected into the last consumer step
    cursor,                     \* subscription stream: index of the chain event it yields next
    missed,                     \* history: ids of the events emitted while the indexer was down
    payload,                    \* the logical ProfileCreated payload received last
    encoding,                   \* the wire encoding it arrived in
    decoded,                    \* the result of decoding it
    event_type,                 \* history: type name of the raw event dispatched last
    sending,                    \* listener: the event being forwarded and the next sender
    send_log                    \* history: the sends of the listener, in order

tables == <<platforms, platform_moderators, platform_blocked_profiles,
            platform_memberships, profiles, social_graph_relationships,
            profiles_blocked>>
logs == <<platform_events, social_graph_events, profile_events>>
history == <<last, repeat, outcome, everApproved, seenProfiles, scenario>>
pipe == <<chain, session, last_seen_timestamp, rx, task_running, forwarded, handled,
          fault, cursor, missed>>
decoding == <<payload, encoding, decoded, event_type>>
forwarding == <<sending, send_log>>
vars == <<tables, logs, now, history, indexer_progress, pipe, decoding, forwarding>>

platformTables == <<platforms, platform_moderators, platform_blocked_profiles,
                    platform_memberships>>
socialTables == <<profiles, social_graph_relationships>>

(***************************************************************************)
(* Table primitives (diesel insert / delete / update / count).             *)
(***************************************************************************)
Rows(t) == BagToSet(t)
Insert(t, row) == t (+) SetToBag({row})
DeleteRows(t, S) == [r \in DOMAIN t \ S |-> t[r]]
UpdateRows(t, f) == BagOfAll(LAMBDA r : f[r], t)
Count(t, S) == BagCardinality([r \in DOMAIN t \cap S |-> t[r]])

(***************************************************************************)
(* Typed events.  One record shape for all kinds; unused fields are "-".   *)
(***************************************************************************)
Event(type, platform_id, profile_id, a, b, flag, ts) ==
    [type |-> type, platform_id |-> platform_id, profile_id |-> profile_id,
     a |-> a, b |-> b, flag |-> flag, ts |-> ts]
NoEvent == Event("-", "-", "-", "-", "-", FALSE, None)

(***************************************************************************)
(* Schema constraints that only the migrations declare.  The data model of *)
(* the specification (section 3) names unique keys but no foreign key.     *)
(***************************************************************************)
SchemaForeignKeys == {}
SchemaUniqueKeys == {"profiles(username)", "profiles(profile_id)"}

(***************************************************************************)
(* History bookkeeping (not program state).                                *)
(***************************************************************************)
ScenarioMatches(k, e) ==
    \/ k = 1 /\ e.type = "PlatformCreated" /\ e.platform_id = "p1" /\ e.a = "0xdev"
    \/ k = 2 /\ e.type = "PlatformApprovalChanged" /\ e.platform_id = "p1"
             /\ e.flag /\ e.a = "0xadmin"
    \/ k = 3 /\ e.type = "UserJoinedPlatform" /\ e.platform_id = "p1"
             /\ e.profile_id = "u1" /\ e.ts = Some(0)
    \/ k = 4 /\ e.type = "ProfileBlocked" /\ e.platform_id = "p1" /\ e.profile_id = "u1"
    \/ k = 5 /\ e.type = "UserJoinedPlatform" /\ e.platform_id = "p1"
             /\ e.profile_id = "u1" /\ e.ts = Some(0)

Record(e, oc) ==
    /\ last' = e
    /\ repeat' = IF e = last THEN 2 ELSE 1
    /\ outcome' = oc
    /\ scenario' = IF scenario.on /\ scenario.step < 5
                       /\ ScenarioMatches(scenario.step + 1, e)
                   THEN [on |-> TRUE, step |-> scenario.step + 1]
                   ELSE [on |-> FALSE, step |-> 0]

(***************************************************************************)
(* Platform projector: blockchain/platform_handler.rs                      *)
(***************************************************************************)
PlatformExists(platform_id) ==
    Count(platforms, {r \in Rows(platforms) : r.platform_id = platform_id}) > 0

\* variant: the join gate only looks for the platform row
PlatformIsApproved_exists(platform_id) ==
    \E r \in Rows(platforms) : r.platform_id = platform_id

PlatformIsApproved(platform_id) ==
    LET found == {r \in Rows(platforms) : r.platform_id = platform_id}
    IN  IF found = {} THEN FALSE ELSE (CHOOSE r \in found : TRUE).is_approved

\* variant: the block lookup filters on the wrong column
ProfileIsBlocked_wrong_column(platform_id, profile_id) ==
    Count(platform_blocked_profiles,
               {r \in Rows(platform_blocked_profiles) : r.platform_id = platform_id
                   /\ r.blocked_by = profile_id}) > 0

ProfileIsBlocked(platform_id, profile_id) ==
    Count(platform_blocked_profiles,
               {r \in Rows(platform_blocked_profiles) : r.platform_id = platform_id
                   /\ r.profile_id = profile_id}) > 0

MembershipExists(platform_id, profile_id) ==
    Count(platform_memberships,
               {r \in Rows(platform_memberships) : r.platform_id = platform_id
                   /\ r.profile_id = profile_id}) > 0

ProfileExists(profile_id) ==
    Count(profiles, {r \in Rows(profiles) : r.profile_id = profile_id}) > 0

\* variant: the changeset writes an absent field as NULL / false
UpdatePlatform_none_as_null(r, name, updated_at, is_approved, approval_changed_at, approved_by) ==
    [r EXCEPT !.name = IF name = None THEN @ ELSE CHOOSE x \in name : TRUE,
              !.updated_at = IF updated_at = None THEN @
                             ELSE CHOOSE x \in updated_at : TRUE,
              !.is_approved = IF is_approved = None THEN FALSE
                              ELSE CHOOSE x \in is_approved : TRUE,
              !.approval_changed_at = approval_changed_at,
              !.approved_by = approved_by]

\* the UpdatePlatform changeset: a field that is None is left as it is
UpdatePlatform(r, name, updated_at, is_approved, approval_changed_at, approved_by) ==
    [r EXCEPT !.name = IF name = None THEN @ ELSE CHOOSE x \in name : TRUE,
              !.updated_at = IF updated_at = None THEN @
                             ELSE CHOOSE x \in updated_at : TRUE,
              !.is_approved = IF is_approved = None THEN @
                              ELSE CHOOSE x \in is_approved : TRUE,
              !.approval_changed_at = IF approval_changed_at = None THEN @
                                      ELSE approval_changed_at,
              !.approved_by = IF approved_by = None THEN @ ELSE approved_by]

\* variant: a new platform row starts approved
NewPlatform_approved(platform_id, name, developer, created_at, updated_at) ==
    [platform_id |-> platform_id, name |-> name, developer_address |-> developer,
     created_at |-> created_at, updated_at |-> updated_at,
     is_approved |-> TRUE, approval_changed_at |-> None, approved_by |-> None]

NewPlatform(platform_id, name, developer, created_at, updated_at) ==
    [platform_id |-> platform_id, name |-> name, developer_address |-> developer,
     created_at |-> created_at, updated_at |-> updated_at,
     is_approved |-> FALSE, approval_changed_at |-> None, approved_by |-> None]

NewPlatformModerator(platform_id, moderator_address, added_by) ==
    [platform_id |-> platform_id, moderator_address |-> moderator_address,
     added_by |-> added_by, created_at |-> now]

\* variant: plain INSERT, no ON CONFLICT clause
InsertModerator_plain(t, row) == Insert(t, row)

\* INSERT ... ON CONFLICT (platform_id, moderator_address) DO NOTHING
InsertModerator(t, row) ==
    IF \E r \in Rows(t) : r.platform_id = row.platform_id
                          /\ r.moderator_address = row.moderator_address
    THEN t
    ELSE Insert(t, row)

\* variant: a PlatformCreated for an existing row takes the platform over
process_platform_created_event_take_over(platform_id, name, developer) ==
    /\ platform_events < MaxPlatformEvents
    /\ platform_events' = platform_events + 1
    /\ IF PlatformExists(platform_id)
       THEN /\ platforms' = UpdateRows(platforms,
                                [r \in Rows(platforms) |->
                    IF r.platform_id = platform_id
                    THEN [UpdatePlatform(r, Some(name), Some(now), None, None, None)
                             EXCEPT !.developer_address = developer]
                    ELSE r])
            /\ platform_moderators' = InsertModerator(platform_moderators,
                                NewPlatformModerator(platform_id, developer, developer))
            /\ Record(Event("PlatformCreated", platform_id, "-", developer, name, FALSE, None),
                      "updated")
       ELSE /\ platforms' = Insert(platforms,
                                NewPlatform(platform_id, name, developer, now, now))
            /\ platform_moderators' = InsertModerator(platform_moderators,
                                NewPlatformModerator(platform_id, developer, developer))
            /\ Record(Event("PlatformCreated", platform_id, "-", developer, name, FALSE, None),
                      "created")
    /\ UNCHANGED <<platform_blocked_profiles, platform_memberships, socialTables,
                   profiles_blocked, social_graph_events, profile_events, now,
                   everApproved, seenProfiles, indexer_progress>>

process_platform_created_event(platform_id, name, developer) ==
    /\ platform_events < MaxPlatformEvents
    /\ platform_events' = platform_events + 1
    /\ IF PlatformExists(platform_id)
       THEN /\ platforms' = UpdateRows(platforms,
                                [r \in Rows(platforms) |->
                    IF r.platform_id = platform_id
                    THEN UpdatePlatform(r, Some(name), Some(now), None, None, None)
                    ELSE r])
            /\ UNCHANGED platform_moderators
            /\ Record(Event("PlatformCreated", platform_id, "-", developer, name, FALSE, None),
                      "updated")
       ELSE /\ platforms' = Insert(platforms,
                                NewPlatform(platform_id, name, developer, now, now))
            /\ platform_moderators' = InsertModerator(platform_moderators,
                                NewPlatformModerator(platform_id, developer, developer))
            /\ Record(Event("PlatformCreated", platform_id, "-", developer, name, FALSE, None),
                      "created")
    /\ UNCHANGED <<platform_blocked_profiles, platform_memberships, socialTables,
                   profiles_blocked, social_graph_events, profile_events, now,
                   everApproved, seenProfiles, indexer_progress>>

process_platform_updated_event(platform_id, name, updated_at) ==
    /\ platform_events < MaxPlatformEvents
    /\ platform_events' = platform_events + 1
    /\ IF PlatformExists(platform_id)
       THEN /\ platforms' = UpdateRows(platforms,
                                [r \in Rows(platforms) |->
                    IF r.platform_id = platform_id
                    THEN UpdatePlatform(r, Some(name), Some(updated_at), None, None, None)
                    ELSE r])
            /\ Record(Event("PlatformUpdated", platform_id, "-", "-", name, FALSE,
                            Some(updated_at)), "updated")
       ELSE /\ platforms' = Insert(platforms,
                                NewPlatform(platform_id, name, "unknown", now, updated_at))
            /\ Record(Event("PlatformUpdated", platform_id, "-", "-", name, FALSE,
                            Some(updated_at)), "created")
    /\ UNCHANGED <<platform_moderators, platform_blocked_profiles, platform_memberships,
                   socialTables, profiles_blocked, social_graph_events, profile_events,
                   now, everApproved, seenProfiles, indexer_progress>>

\* variant: the moderator row is written without a parent platform
process_moderator_added_event_no_parent(platform_id, moderator_address, added_by) ==
    /\ platform_events < MaxPlatformEvents
    /\ platform_events' = platform_events + 1
    /\ platform_moderators' = InsertModerator(platform_moderators,
                                NewPlatformModerator(platform_id, moderator_address, added_by))
    /\ Record(Event("ModeratorAdded", platform_id, "-", moderator_address, added_by, FALSE, None),
              IF PlatformExists(platform_id) THEN "added" ELSE "placeholder")
    /\ UNCHANGED <<platforms, platform_blocked_profiles, platform_memberships, socialTables,
                   profiles_blocked, social_graph_events, profile_events, now,
                   everApproved, seenProfiles, indexer_progress>>

process_moderator_added_event(platform_id, moderator_address, added_by) ==
    /\ platform_events < MaxPlatformEvents
    /\ platform_events' = platform_events + 1
    /\ platforms' = IF PlatformExists(platform_id)
                    THEN platforms
                    ELSE Insert(platforms,
                             NewPlatform(platform_id, "Unknown Platform (" \o platform_id \o ")",
                                         added_by, now, now))
    /\ platform_moderators' = InsertModerator(platform_moderators,
                                NewPlatformModerator(platform_id, moderator_address, added_by))
    /\ Record(Event("ModeratorAdded", platform_id, "-", moderator_address, added_by, FALSE, None),
              IF PlatformExists(platform_id) THEN "added" ELSE "placeholder")
    /\ UNCHANGED <<platform_blocked_profiles, platform_memberships, socialTables,
                   profiles_blocked, social_graph_events, profile_events, now,
                   everApproved, seenProfiles, indexer_progress>>

process_moderator_removed_event(platform_id, moderator_address) ==
    /\ platform_events < MaxPlatformEvents
    /\ platform_events' = platform_events + 1
    /\ platform_moderators' = DeleteRows(platform_moderators,
                                {r \in Rows(platform_moderators) : r.platform_id = platform_id
                                           /\ r.moderator_address = moderator_address})
    /\ Record(Event("ModeratorRemoved", platform_id, "-", moderator_address, "-", FALSE, None),
              "removed")
    /\ UNCHANGED <<platforms, platform_blocked_profiles, platform_memberships,
                   socialTables, profiles_blocked, social_graph_events, profile_events,
                   now, everApproved, seenProfiles, indexer_progress>>

\* variant: blocking also evicts the profile from the platform
process_profile_blocked_event_evict(platform_id, profile_id, blocked_by) ==
    /\ platform_events < MaxPlatformEvents
    /\ platform_events' = platform_events + 1
    /\ platform_blocked_profiles' =
           Insert(DeleteRows(platform_blocked_profiles,
                              {r \in Rows(platform_blocked_profiles) : r.platform_id = platform_id
                                         /\ r.profile_id = profile_id}),
                  [platform_id |-> platform_id, profile_id |-> profile_id,
                   blocked_by |-> blocked_by, created_at |-> now])
    /\ platform_memberships' =
           DeleteRows(platform_memberships,
                       {r \in Rows(platform_memberships) : r.platform_id = platform_id
                           /\ r.profile_id = profile_id})
    /\ Record(Event("ProfileBlocked", platform_id, profile_id, blocked_by, "-", FALSE, None),
              "blocked")
    /\ UNCHANGED <<platforms, platform_moderators, socialTables,
                   profiles_blocked, social_graph_events, profile_events, now,
                   everApproved, seenProfiles, indexer_progress>>

\* variant: the block row is inserted without removing the row of the pair
process_profile_blocked_event_append(platform_id, profile_id, blocked_by) ==
    /\ platform_events < MaxPlatformEvents
    /\ platform_events' = platform_events + 1
    /\ platform_blocked_profiles' =
           Insert(platform_blocked_profiles,
                  [platform_id |-> platform_id, profile_id |-> profile_id,
                   blocked_by |-> blocked_by, created_at |-> now])
    /\ Record(Event("ProfileBlocked", platform_id, profile_id, blocked_by, "-", FALSE, None),
              IF ProfileIsBlocked(platform_id, profile_id) THEN "refreshed" ELSE "blocked")
    /\ UNCHANGED <<platforms, platform_moderators, platform_memberships, socialTables,
                   profiles_blocked, social_graph_events, profile_events, now,
                   everApproved, seenProfiles, indexer_progress>>

process_profile_blocked_event(platform_id, profile_id, blocked_by) ==
    /\ platform_events < MaxPlatformEvents
    /\ platform_events' = platform_events + 1
    /\ platform_blocked_profiles' =
           Insert(DeleteRows(platform_blocked_profiles,
                              {r \in Rows(platform_blocked_profiles) : r.platform_id = platform_id
                                         /\ r.profile_id = profile_id}),
                  [platform_id |-> platform_id, profile_id |-> profile_id,
                   blocked_by |-> blocked_by, created_at |-> now])
    /\ Record(Event("ProfileBlocked", platform_id, profile_id, blocked_by, "-", FALSE, None),
              IF ProfileIsBlocked(platform_id, profile_id) THEN "refreshed" ELSE "blocked")
    /\ UNCHANGED <<platforms, platform_moderators, platform_memberships, socialTables,
                   profiles_blocked, social_graph_events, profile_events, now,
                   everApproved, seenProfiles, indexer_progress>>

\* variant: the unblock is logged and the block row stays
process_profile_unblocked_event_keep_row(platform_id, profile_id) ==
    /\ platform_events < MaxPlatformEvents
    /\ platform_events' = platform_events + 1
    /\ Record(Event("ProfileUnblocked", platform_id, profile_id, "-", "-", FALSE, None),
              IF ProfileIsBlocked(platform_id, profile_id) THEN "unblocked" ELSE "not_found")
    /\ UNCHANGED <<platforms, platform_moderators, platform_blocked_profiles,
                   platform_memberships, socialTables,
                   profiles_blocked, social_graph_events, profile_events, now,
                   everApproved, seenProfiles, indexer_progress>>

process_profile_unblocked_event(platform_id, profile_id) ==
    /\ platform_events < MaxPlatformEvents
    /\ platform_events' = platform_events + 1
    /\ platform_blocked_profiles' =
           DeleteRows(platform_blocked_profiles,
                       {r \in Rows(platform_blocked_profiles) : r.platform_id = platform_id
                           /\ r.profile_id = profile_id})
    /\ Record(Event("ProfileUnblocked", platform_id, profile_id, "-", "-", FALSE, None),
              IF ProfileIsBlocked(platform_id, profile_id) THEN "unblocked" ELSE "not_found")
    /\ UNCHANGED <<platforms, platform_moderators, platform_memberships, socialTables,
                   profiles_blocked, social_graph_events, profile_events, now,
                   everApproved, seenProfiles, indexer_progress>>

\* variant: an approval for a missing platform creates its row
process_platform_approval_changed_event_upsert(platform_id, is_approved, approved_by, changed_at) ==
    /\ platform_events < MaxPlatformEvents
    /\ platform_events' = platform_events + 1
    /\ IF PlatformExists(platform_id)
       THEN /\ platforms' = UpdateRows(platforms,
                                [r \in Rows(platforms) |->
                    IF r.platform_id = platform_id
                    THEN UpdatePlatform(r, None, Some(changed_at), Some(is_approved),
                                        Some(changed_at), Some(approved_by))
                    ELSE r])
            /\ everApproved' = IF is_approved THEN everApproved \cup {platform_id}
                               ELSE everApproved
            /\ Record(Event("PlatformApprovalChanged", platform_id, "-", approved_by, "-",
                            is_approved, Some(changed_at)), "updated")
       ELSE /\ platforms' = Insert(platforms,
                    [NewPlatform(platform_id, "", "", now, now)
                        EXCEPT !.is_approved = is_approved,
                               !.approval_changed_at = Some(changed_at),
                               !.approved_by = Some(approved_by)])
            /\ UNCHANGED everApproved
            /\ Record(Event("PlatformApprovalChanged", platform_id, "-", approved_by, "-",
                            is_approved, Some(changed_at)), "not_found")
    /\ UNCHANGED <<platform_moderators, platform_blocked_profiles, platform_memberships,
                   socialTables, profiles_blocked, social_graph_events, profile_events,
                   now, seenProfiles, indexer_progress>>

process_platform_approval_changed_event(platform_id, is_approved, approved_by, changed_at) ==
    /\ platform_events < MaxPlatformEvents
    /\ platform_events' = platform_events + 1
    /\ IF PlatformExists(platform_id)
       THEN /\ platforms' = UpdateRows(platforms,
                                [r \in Rows(platforms) |->
                    IF r.platform_id = platform_id
                    THEN UpdatePlatform(r, None, Some(changed_at), Some(is_approved),
                                        Some(changed_at), Some(approved_by))
                    ELSE r])
            /\ everApproved' = IF is_approved THEN everApproved \cup {platform_id}
                               ELSE everApproved
            /\ Record(Event("PlatformApprovalChanged", platform_id, "-", approved_by, "-",
                            is_approved, Some(changed_at)), "updated")
       ELSE /\ UNCHANGED <<platforms, everApproved>>
            /\ Record(Event("PlatformApprovalChanged", platform_id, "-", approved_by, "-",
                            is_approved, Some(changed_at)), "not_found")
    /\ UNCHANGED <<platform_moderators, platform_blocked_profiles, platform_memberships,
                   socialTables, profiles_blocked, social_graph_events, profile_events,
                   now, seenProfiles, indexer_progress>>

\* variant: a rejected join returns before the event is logged
process_user_joined_platform_event_unlogged(profile_id, platform_id, timestamp) ==
    LET e == Event("UserJoinedPlatform", platform_id, profile_id, "-", "-", FALSE, Some(timestamp))
    IN
    /\ platform_events < MaxPlatformEvents
    /\ profile_events < MaxProfileEvents
    /\ IF ~PlatformIsApproved(platform_id)
       THEN /\ UNCHANGED <<platform_events, platform_memberships, profile_events>>
            /\ Record(e, "ignored_not_approved")
       ELSE IF ProfileIsBlocked(platform_id, profile_id)
       THEN /\ UNCHANGED <<platform_events, platform_memberships, profile_events>>
            /\ Record(e, "ignored_blocked")
       ELSE IF MembershipExists(platform_id, profile_id)
       THEN /\ platform_events' = platform_events + 1
            /\ UNCHANGED <<platform_memberships, profile_events>>
            /\ Record(e, "already_member")
       ELSE /\ platform_events' = platform_events + 1
            /\ platform_memberships' = Insert(platform_memberships,
                   [platform_id |-> platform_id, profile_id |-> profile_id,
                    joined_at |-> timestamp])
            /\ profile_events' = profile_events + 1
            /\ Record(e, "joined")
    /\ UNCHANGED <<platforms, platform_moderators, platform_blocked_profiles,
                   socialTables, profiles_blocked, social_graph_events, now,
                   everApproved, seenProfiles, indexer_progress>>

process_user_joined_platform_event(profile_id, platform_id, timestamp) ==
    LET e == Event("UserJoinedPlatform", platform_id, profile_id, "-", "-", FALSE, Some(timestamp))
    IN
    /\ platform_events < MaxPlatformEvents
    /\ profile_events < MaxProfileEvents
    /\ IF ~PlatformIsApproved(platform_id)
       THEN /\ platform_events' = platform_events + 1
            /\ UNCHANGED <<platform_memberships, profile_events>>
            /\ Record(e, "ignored_not_approved")
       ELSE IF ProfileIsBlocked(platform_id, profile_id)
       THEN /\ platform_events' = platform_events + 1
            /\ UNCHANGED <<platform_memberships, profile_events>>
            /\ Record(e, "ignored_blocked")
       ELSE IF MembershipExists(platform_id, profile_id)
       THEN /\ platform_events' = platform_events + 1
            /\ UNCHANGED <<platform_memberships, profile_events>>
            /\ Record(e, "already_member")
       ELSE IF "platform_memberships(profile_id)" \in SchemaForeignKeys
               /\ ~ProfileExists(profile_id)
       THEN \* the insert fails and the transaction is rolled back
            /\ UNCHANGED <<platform_events, platform_memberships, profile_events>>
            /\ Record(e, "error")
       ELSE /\ platform_events' = platform_events + 1
            /\ platform_memberships' = Insert(platform_memberships,
                   [platform_id |-> platform_id, profile_id |-> profile_id,
                    joined_at |-> timestamp])
            /\ profile_events' = profile_events + 1
            /\ Record(e, "joined")
    /\ UNCHANGED <<platforms, platform_moderators, platform_blocked_profiles,
                   socialTables, profiles_blocked, social_graph_events, now,
                   everApproved, seenProfiles, indexer_progress>>

process_user_left_platform_event(profile_id, platform_id, timestamp) ==
    LET e == Event("UserLeftPlatform", platform_id, profile_id, "-", "-", FALSE, Some(timestamp))
    IN
    /\ platform_events < MaxPlatformEvents
    /\ profile_events < MaxProfileEvents
    /\ platform_events' = platform_events + 1
    /\ IF MembershipExists(platform_id, profile_id)
       THEN /\ platform_memberships' =
                   DeleteRows(platform_memberships,
                               {r \in Rows(platform_memberships) : r.platform_id = platform_id
                                          /\ r.profile_id = profile_id})
            /\ profile_events' = profile_events + 1
            /\ Record(e, "left")
       ELSE /\ UNCHANGED <<platform_memberships, profile_events>>
            /\ Record(e, "not_member")
    /\ UNCHANGED <<platforms, platform_moderators, platform_blocked_profiles,
                   socialTables, profiles_blocked, social_graph_events, now,
                   everApproved, seenProfiles, indexer_progress>>

(***************************************************************************)
(* Profile listener: blockchain/events.rs, events/profile_events.rs        *)
(***************************************************************************)
\* upsert of the listener's row of indexer_progress
update_progress(timestamp) ==
    indexer_progress' = Some([last_checkpoint_processed |-> timestamp,
                              last_processed_at |-> now])

\* the display name of the ProfileCreated events that carry no other
DefaultDisplayName == "Al"

\* owner_address.chars().take(8), tabulated for the owner addresses in use
Take8 == [a \in {OwnerName[i] : i \in 1..3} |->
             CASE a = "0xa11ce0000001" -> "0xa11ce0"
               [] a = "0xb0b000000002" -> "0xb0b000"
               [] a = "0xa11ce0000003" -> "0xa11ce0"]

\* ProfileCreatedEvent::into_model
into_model(profile_id, owner_address, username, display_name, bio, created_at) ==
    [profile_id |-> profile_id,
     owner_address |-> owner_address,
     username |-> IF username = None THEN "user_" \o Take8[owner_address]
                  ELSE CHOOSE n \in username : TRUE,
     display_name |-> Some(display_name), bio |-> bio,
     created_at |-> created_at, updated_at |-> created_at,
     sensitive_data_updated_at |-> None,
     followers_count |-> 0, following_count |-> 0]

\* variant: the upsert stamps updated_at with the wall clock
UpsertProfileRow_now(r, new_profile) ==
    [r EXCEPT !.owner_address = new_profile.owner_address,
              !.display_name = new_profile.display_name,
              !.bio = new_profile.bio,
              !.updated_at = now,
              !.profile_id = new_profile.profile_id,
              !.sensitive_data_updated_at = new_profile.sensitive_data_updated_at]

\* variant: DO UPDATE SET every column of the new row, the counters included
UpsertProfileRow_all_columns(r, new_profile) == [new_profile EXCEPT !.created_at = r.created_at]

\* the SET list of ON CONFLICT (username) DO UPDATE
UpsertProfileRow(r, new_profile) ==
    [r EXCEPT !.owner_address = new_profile.owner_address,
              !.display_name = new_profile.display_name,
              !.bio = new_profile.bio,
              !.updated_at = new_profile.updated_at,
              !.profile_id = new_profile.profile_id,
              !.sensitive_data_updated_at = new_profile.sensitive_data_updated_at]

process_profile_created(profile_id, owner_address, username, display_name, bio, created_at) ==
    LET new_profile == into_model(profile_id, owner_address, username, display_name, bio,
                                  created_at)
        e == Event("ProfileCreated", "-", profile_id, owner_address,
                   IF username = None THEN "-" ELSE new_profile.username,
                   FALSE, Some(created_at))
        conflict == \E r \in Rows(profiles) : r.username = new_profile.username
        taken == \E r \in Rows(profiles) : /\ r.profile_id = profile_id
                                           /\ r.username # new_profile.username
    IN
    /\ IF "profiles(profile_id)" \in SchemaUniqueKeys /\ taken
       THEN \* the statement fails on the second unique key; the error is logged
            /\ UNCHANGED profiles
            /\ Record(e, "error")
       ELSE IF conflict
       THEN /\ profiles' = UpdateRows(profiles,
                               [r \in Rows(profiles) |->
                    IF r.username = new_profile.username
                    THEN UpsertProfileRow(r, new_profile)
                    ELSE r])
            /\ Record(e, "updated")
       ELSE /\ profiles' = Insert(profiles, new_profile)
            /\ Record(e, "inserted")
    /\ seenProfiles' = seenProfiles \cup {profile_id}
    /\ UNCHANGED <<platformTables, social_graph_relationships, profiles_blocked,
                   logs, now, everApproved>>

\* variant: a changeset that writes NULL for every field that is None
AsChangeset_none_as_null(r, update) ==
    [r EXCEPT !.display_name = update.display_name,
              !.bio = update.bio,
              !.sensitive_data_updated_at = update.sensitive_data_updated_at]

\* #[derive(AsChangeset)] on UpdateProfile: a field that is None is left out
\* of the SET list
AsChangeset(r, update) ==
    [r EXCEPT !.display_name = IF update.display_name = None THEN @
                               ELSE update.display_name,
              !.bio = IF update.bio = None THEN @ ELSE update.bio,
              !.sensitive_data_updated_at =
                  IF update.sensitive_data_updated_at = None THEN @
                  ELSE update.sensitive_data_updated_at]

\* SocialIndexerWorker::process_profile_updated
process_profile_updated(profile_id, display_name, bio, updated_at) ==
    LET e == Event("ProfileUpdated", "-", profile_id,
                   IF display_name = None THEN "-" ELSE CHOOSE x \in display_name : TRUE,
                   IF bio = None THEN "-" ELSE CHOOSE x \in bio : TRUE,
                   FALSE, Some(updated_at))
        found == {r \in Rows(profiles) : r.profile_id = profile_id}
    IN
    /\ IF found = {}
       THEN \* .first(..).await? : NotFound goes back to the caller, which logs it
            /\ UNCHANGED profiles
            /\ Record(e, "error")
       ELSE \E profile \in found :
                LET update == [display_name |-> display_name,
                               bio |-> IF bio # None THEN bio ELSE profile.bio,
                               sensitive_data_updated_at |-> Some(updated_at)]
                IN  /\ profiles' = UpdateRows(profiles,
                                       [r \in Rows(profiles) |->
                                           IF r = profile THEN AsChangeset(r, update)
                                           ELSE r])
                    /\ Record(e, "updated")
    /\ UNCHANGED <<platformTables, social_graph_relationships, profiles_blocked,
                   logs, now, everApproved, seenProfiles>>

(***************************************************************************)
(* Social-graph projector: blockchain/social_graph_handler.rs              *)
(***************************************************************************)
\* FollowEvent::into_relationship
into_relationship(follower, following, timestamp) ==
    [follower_address |-> follower, following_address |-> following,
     created_at |-> IF timestamp = None THEN now ELSE CHOOSE t \in timestamp : TRUE]

RelationshipExists(follower, following) ==
    Count(social_graph_relationships,
               {r \in Rows(social_graph_relationships) : r.follower_address = follower
                          /\ r.following_address = following}) > 0

\* INSERT ... ON CONFLICT (follower_address, following_address) DO NOTHING
InsertRelationship(t, row) ==
    IF \E r \in Rows(t) : r.follower_address = row.follower_address
                          /\ r.following_address = row.following_address
    THEN t
    ELSE Insert(t, row)

\* UPDATE profiles SET following_count = (SELECT COUNT(*) ...) WHERE profile_id = $1
RecountFollowing(p, rels, id) ==
    UpdateRows(p, [r \in Rows(p) |->
                    IF r.profile_id = id
                    THEN [r EXCEPT !.following_count =
                               Count(rels, {x \in Rows(rels) : x.follower_address = id})]
                    ELSE r])

\* UPDATE profiles SET followers_count = (SELECT COUNT(*) ...) WHERE profile_id = $1
RecountFollowers(p, rels, id) ==
    UpdateRows(p, [r \in Rows(p) |->
                    IF r.profile_id = id
                    THEN [r EXCEPT !.followers_count =
                               Count(rels, {x \in Rows(rels) : x.following_address = id})]
                    ELSE r])

\* variant: no existing-relationship check, counters incremented blindly
process_follow_event_blind(follower, following, timestamp) ==
    /\ social_graph_events < MaxSocialEvents
    /\ social_graph_events' = social_graph_events + 1
    /\ IF ~(ProfileExists(follower) /\ ProfileExists(following))
       THEN UNCHANGED socialTables
       ELSE /\ social_graph_relationships' =
                   InsertRelationship(social_graph_relationships,
                                      into_relationship(follower, following, timestamp))
            /\ profiles' = UpdateRows(profiles, [r \in Rows(profiles) |->
                   [r EXCEPT !.following_count =
                                 IF r.profile_id = follower
                                 THEN r.following_count + 1 ELSE r.following_count,
                             !.followers_count =
                                 IF r.profile_id = following
                                 THEN r.followers_count + 1 ELSE r.followers_count]])
    /\ Record(Event("Follow", "-", follower, following, "-", FALSE, timestamp), "followed")
    /\ UNCHANGED <<platformTables, profiles_blocked, platform_events, profile_events,
                   now, everApproved, seenProfiles, indexer_progress>>

\* variant: the endpoints are checked before the event is logged
process_follow_event_check_first(follower, following, timestamp) ==
    LET e == Event("Follow", "-", follower, following, "-", FALSE, timestamp)
        relationship == into_relationship(follower, following, timestamp)
        rels == InsertRelationship(social_graph_relationships, relationship)
    IN
    /\ social_graph_events < MaxSocialEvents
    /\ IF ~ProfileExists(follower)
       THEN /\ UNCHANGED <<socialTables, social_graph_events>>
            /\ Record(e, "follower_not_found")
       ELSE IF ~ProfileExists(following)
       THEN /\ UNCHANGED <<socialTables, social_graph_events>>
            /\ Record(e, "following_not_found")
       ELSE IF RelationshipExists(follower, following)
       THEN /\ UNCHANGED socialTables
            /\ social_graph_events' = social_graph_events + 1
            /\ Record(e, "already_following")
       ELSE /\ social_graph_relationships' = rels
            /\ social_graph_events' = social_graph_events + 1
            /\ profiles' = RecountFollowers(
                               RecountFollowing(profiles, rels, follower),
                               rels, following)
            /\ Record(e, "followed")
    /\ UNCHANGED <<platformTables, profiles_blocked, platform_events, profile_events,
                   now, everApproved, seenProfiles, indexer_progress>>

process_follow_event(follower, following, timestamp) ==
    LET e == Event("Follow", "-", follower, following, "-", FALSE, timestamp)
        relationship == into_relationship(follower, following, timestamp)
        rels == InsertRelationship(social_graph_relationships, relationship)
    IN
    /\ social_graph_events < MaxSocialEvents
    /\ social_graph_events' = social_graph_events + 1
    /\ IF ~ProfileExists(follower)
       THEN /\ UNCHANGED socialTables
            /\ Record(e, "follower_not_found")
       ELSE IF ~ProfileExists(following)
       THEN /\ UNCHANGED socialTables
            /\ Record(e, "following_not_found")
       ELSE IF RelationshipExists(follower, following)
       THEN /\ UNCHANGED socialTables
            /\ Record(e, "already_following")
       ELSE /\ social_graph_relationships' = rels
            /\ profiles' = RecountFollowers(
                               RecountFollowing(profiles, rels, follower),
                               rels, following)
            /\ Record(e, "followed")
    /\ UNCHANGED <<platformTables, profiles_blocked, platform_events, profile_events,
                   now, everApproved, seenProfiles, indexer_progress>>

process_unfollow_event(follower, unfollowed) ==
    LET e == Event("Unfollow", "-", follower, unfollowed, "-", FALSE, None)
        rels == DeleteRows(social_graph_relationships,
                            {r \in Rows(social_graph_relationships) : r.follower_address = follower
                                       /\ r.following_address = unfollowed})
    IN
    /\ social_graph_events < MaxSocialEvents
    /\ social_graph_events' = social_graph_events + 1
    /\ IF ~RelationshipExists(follower, unfollowed)
       THEN /\ UNCHANGED socialTables
            /\ Record(e, "not_following")
       ELSE IF ~(ProfileExists(follower) /\ ProfileExists(unfollowed))
       THEN /\ UNCHANGED socialTables
            /\ Record(e, "profile_not_found")
       ELSE /\ social_graph_relationships' = rels
            /\ profiles' = RecountFollowers(
                               RecountFollowing(profiles, rels, follower),
                               rels, unfollowed)
            /\ Record(e, "unfollowed")
    /\ UNCHANGED <<platformTables, profiles_blocked, platform_events, profile_events,
                   now, everApproved, seenProfiles, indexer_progress>>

(***************************************************************************)
(* User-level blocking: events/blocking_events.rs                          *)
(***************************************************************************)
\* variant: re-blocking refreshes created_at, as the platform-level block does
ReblockRow_refresh(r) == [r EXCEPT !.is_blocked = TRUE, !.unblocked_at = None,
                                   !.created_at = now]

\* variant: re-blocking sets the flag and keeps unblocked_at
ReblockRow_keep_unblocked_at(r) == [r EXCEPT !.is_blocked = TRUE]

\* the SET list of the update of an existing block row
ReblockRow(r) == [r EXCEPT !.is_blocked = TRUE, !.unblocked_at = None]

process_profile_block_event(blocker, blocked) ==
    LET e == Event("UserBlock", "-", blocker, blocked, "-", FALSE, None)
        existing == \E r \in Rows(profiles_blocked) :
                        r.blocker_profile_id = blocker /\ r.blocked_profile_id = blocked
    IN
    /\ profile_events < MaxProfileEvents
    /\ IF blocker = "" \/ blocked = ""
       THEN /\ UNCHANGED <<profiles_blocked, profile_events>>
            /\ Record(e, "skipped")
       ELSE IF existing
       THEN /\ profiles_blocked' = UpdateRows(profiles_blocked,
                                       [r \in Rows(profiles_blocked) |->
                    IF r.blocker_profile_id = blocker
                                                  /\ r.blocked_profile_id = blocked
                    THEN ReblockRow(r)
                    ELSE r])
            /\ UNCHANGED profile_events
            /\ Record(e, "updated")
       ELSE IF "profiles_blocked(profile_id)" \in SchemaForeignKeys
               /\ ~(ProfileExists(blocker) /\ ProfileExists(blocked))
       THEN \* foreign-key violation: logged, the history row is still written
            /\ UNCHANGED profiles_blocked
            /\ profile_events' = profile_events + 1
            /\ Record(e, "foreign_key")
       ELSE /\ profiles_blocked' = Insert(profiles_blocked,
                   [blocker_profile_id |-> blocker, blocked_profile_id |-> blocked,
                    created_at |-> now, is_blocked |-> TRUE, unblocked_at |-> None])
            /\ profile_events' = profile_events + 1
            /\ Record(e, "inserted")
    /\ UNCHANGED <<platformTables, socialTables, platform_events, social_graph_events,
                   now, everApproved, seenProfiles>>

\* process_profile_block_event when the insert into profile_events fails: the
\* statements run on a plain connection, the error is logged, Ok is returned
process_profile_block_event_log_error(blocker, blocked) ==
    LET e == Event("UserBlock", "-", blocker, blocked, "-", FALSE, None)
    IN
    /\ blocker # "" /\ blocked # ""
    /\ ~\E r \in Rows(profiles_blocked) :
           r.blocker_profile_id = blocker /\ r.blocked_profile_id = blocked
    /\ profiles_blocked' = Insert(profiles_blocked,
           [blocker_profile_id |-> blocker, blocked_profile_id |-> blocked,
            created_at |-> now, is_blocked |-> TRUE, unblocked_at |-> None])
    /\ UNCHANGED profile_events
    /\ Record(e, "log_error")
    /\ UNCHANGED <<platformTables, socialTables, platform_events, social_graph_events,
                   now, everApproved, seenProfiles>>

\* variant: an unblock that updates no row is reported as an error
process_profile_unblock_event_strict(blocker, unblocked) ==
    LET e == Event("UserUnblock", "-", blocker, unblocked, "-", FALSE, None)
        existing == \E r \in Rows(profiles_blocked) :
                        r.blocker_profile_id = blocker /\ r.blocked_profile_id = unblocked
    IN
    /\ profile_events < MaxProfileEvents
    /\ IF blocker = "" \/ unblocked = ""
       THEN /\ UNCHANGED <<profiles_blocked, profile_events>>
            /\ Record(e, "skipped")
       ELSE IF ~existing
       THEN /\ UNCHANGED <<profiles_blocked, profile_events>>
            /\ Record(e, "error")
       ELSE /\ profiles_blocked' = UpdateRows(profiles_blocked,
                                       [r \in Rows(profiles_blocked) |->
                    IF r.blocker_profile_id = blocker
                                                  /\ r.blocked_profile_id = unblocked
                    THEN [r EXCEPT !.is_blocked = FALSE,
                                                            !.unblocked_at = Some(now)]
                    ELSE r])
            /\ profile_events' = profile_events + 1
            /\ Record(e, "unblocked")
    /\ UNCHANGED <<platformTables, socialTables, platform_events, social_graph_events,
                   now, everApproved, seenProfiles>>

process_profile_unblock_event(blocker, unblocked) ==
    LET e == Event("UserUnblock", "-", blocker, unblocked, "-", FALSE, None)
    IN
    /\ profile_events < MaxProfileEvents
    /\ IF blocker = "" \/ unblocked = ""
       THEN /\ UNCHANGED <<profiles_blocked, profile_events>>
            /\ Record(e, "skipped")
       ELSE /\ profiles_blocked' = UpdateRows(profiles_blocked,
                                       [r \in Rows(profiles_blocked) |->
                    IF r.blocker_profile_id = blocker
                                                  /\ r.blocked_profile_id = unblocked
                    THEN [r EXCEPT !.is_blocked = FALSE,
                                                            !.unblocked_at = Some(now)]
                    ELSE r])
            /\ profile_events' = profile_events + 1
            /\ Record(e, "unblocked")
    /\ UNCHANGED <<platformTables, socialTables, platform_events, social_graph_events,
                   now, everApproved, seenProfiles>>

\* variant: the listener also keeps the platform-level block as a row
process_platform_block_event_with_row(platform_id, profile_id, blocked_by) ==
    LET e == Event("ProfileBlocked", platform_id, profile_id, blocked_by, "-", FALSE, None)
    IN
    /\ profile_events < MaxProfileEvents
    /\ IF platform_id = "" \/ profile_id = "" \/ blocked_by = ""
       THEN /\ UNCHANGED <<profile_events, platform_blocked_profiles>>
            /\ Record(e, "skipped")
       ELSE /\ profile_events' = profile_events + 1
            /\ platform_blocked_profiles' = Insert(platform_blocked_profiles,
                   [platform_id |-> platform_id, profile_id |-> profile_id,
                    blocked_by |-> blocked_by, created_at |-> now])
            /\ Record(e, "recorded")
    /\ UNCHANGED <<platforms, platform_moderators, platform_memberships, socialTables,
                   profiles_blocked, platform_events, social_graph_events, now,
                   everApproved, seenProfiles>>

\* blocking_events::process_platform_block_event, run by the profile listener:
\* one BlockAdded entry of the profile event log, tagged is_platform_block
process_platform_block_event(platform_id, profile_id, blocked_by) ==
    LET e == Event("ProfileBlocked", platform_id, profile_id, blocked_by, "-", FALSE, None)
    IN
    /\ profile_events < MaxProfileEvents
    /\ IF platform_id = "" \/ profile_id = "" \/ blocked_by = ""
       THEN /\ UNCHANGED profile_events
            /\ Record(e, "skipped")
       ELSE /\ profile_events' = profile_events + 1
            /\ Record(e, "recorded")
    /\ UNCHANGED <<platformTables, socialTables, profiles_blocked, platform_events,
                   social_graph_events, now, everApproved, seenProfiles>>

\* blocking_events::process_platform_unblock_event, run by the profile
\* listener: one BlockRemoved entry, tagged is_platform_block
process_platform_unblock_event(platform_id, profile_id) ==
    LET e == Event("ProfileUnblocked", platform_id, profile_id, "-", "-", FALSE, None)
    IN
    /\ profile_events < MaxProfileEvents
    /\ IF platform_id = "" \/ profile_id = ""
       THEN /\ UNCHANGED profile_events
            /\ Record(e, "skipped")
       ELSE /\ profile_events' = profile_events + 1
            /\ Record(e, "recorded")
    /\ UNCHANGED <<platformTables, socialTables, profiles_blocked, platform_events,
                   social_graph_events, now, everApproved, seenProfiles>>

\* the event failed and was logged: nothing is written
Failed(e) ==
    /\ Record(e, "error")
    /\ UNCHANGED <<tables, logs, now, everApproved, seenProfiles>>

(***************************************************************************)
(* Event decoder: events/mod.rs, events/profile_events.rs                  *)
(*                                                                         *)
(* A JSON value is a record [k, v]: k is its kind and v its content (the   *)
(* text of a string, the number, the members of an object as a function    *)
(* from keys, the items of an array as a sequence).                        *)
(***************************************************************************)
JStr(str) == [k |-> "str", v |-> str]
JNum(n) == [k |-> "num", v |-> n]
JObj(members) == [k |-> "obj", v |-> members]
JArr(items) == [k |-> "arr", v |-> items]

\* serde_json::to_string of a value that is not a string
Stringified == JStr("<json>")

Has(json, key) == json.k = "obj" /\ key \in DOMAIN json.v

\* the typed event
TypedProfileCreatedEvent(profile_id, owner_address, username, display_name, bio, profile_photo, cover_photo, created_at) ==
    [profile_id |-> profile_id, owner_address |-> owner_address,
     username |-> username, display_name |-> display_name, bio |-> bio,
     profile_photo |-> profile_photo, cover_photo |-> cover_photo,
     created_at |-> created_at]

DecodeError ==
    [ok |-> FALSE,
     event |-> TypedProfileCreatedEvent("", "", None, "", None, None, None, 0)]

\* deserialize_number_from_string: T::from_str, for the numerals in use
ParseU64 == [str \in {"0", "1"} |-> IF str = "0" THEN 0 ELSE 1]

\* the first of the keys (serde rename and aliases) that the object has
RECURSIVE FirstKey(_, _)
FirstKey(json, keys) ==
    IF keys = <<>> THEN ""
    ELSE IF Head(keys) \in DOMAIN json.v THEN Head(keys)
    ELSE FirstKey(json, Tail(keys))

\* a String field with #[serde(default)]
StringField(json, keys) ==
    LET key == FirstKey(json, keys)
    IN  IF key = "" THEN [ok |-> TRUE, val |-> ""]
        ELSE IF json.v[key].k = "str" THEN [ok |-> TRUE, val |-> json.v[key].v]
        ELSE [ok |-> FALSE, val |-> ""]

\* an Option<String> field with #[serde(default)]
OptionField(json, keys) ==
    LET key == FirstKey(json, keys)
    IN  IF key = "" THEN [ok |-> TRUE, val |-> None]
        ELSE IF json.v[key].k = "str" THEN [ok |-> TRUE, val |-> Some(json.v[key].v)]
        ELSE [ok |-> FALSE, val |-> None]

\* created_at: default_timestamp when absent, number or numeric string
TimestampField(json, key) ==
    IF key \notin DOMAIN json.v THEN [ok |-> TRUE, val |-> now]
    ELSE IF json.v[key].k = "num" THEN [ok |-> TRUE, val |-> json.v[key].v]
    ELSE IF json.v[key].k = "str" /\ json.v[key].v \in DOMAIN ParseU64
    THEN [ok |-> TRUE, val |-> ParseU64[json.v[key].v]]
    ELSE [ok |-> FALSE, val |-> 0]

\* serde_json::from_value::<ProfileCreatedEvent>
from_value(json) ==
    IF json.k # "obj" THEN DecodeError
    ELSE LET profile_id == StringField(json, <<"profile_id", "id">>)
             owner_address == StringField(json, <<"owner_address", "owner">>)
             username == OptionField(json, <<"username">>)
             display_name == StringField(json, <<"display_name">>)
             profile_photo == OptionField(json, <<"profile_photo", "profile_picture",
                                                  "avatar_url">>)
             cover_photo == OptionField(json, <<"cover_photo", "cover_url">>)
             bio == OptionField(json, <<"bio">>)
             created_at == TimestampField(json, "created_at")
         IN  IF /\ profile_id.ok /\ owner_address.ok /\ username.ok /\ display_name.ok
                /\ profile_photo.ok /\ cover_photo.ok /\ bio.ok /\ created_at.ok
             THEN [ok |-> TRUE,
                   event |-> TypedProfileCreatedEvent(
                                 profile_id.val, owner_address.val, username.val,
                                 display_name.val, bio.val, profile_photo.val,
                                 cover_photo.val, created_at.val)]
             ELSE DecodeError

\* parse_event: extract_object_value
RECURSIVE extract_object_value(_)
extract_object_value(obj) ==
    IF "url" \in DOMAIN obj THEN obj["url"]
    ELSE IF "string" \in DOMAIN obj THEN obj["string"]
    ELSE IF "vec" \in DOMAIN obj /\ obj["vec"].k = "arr" /\ Len(obj["vec"].v) > 0
    THEN LET first_item == obj["vec"].v[1]
         IN  IF Has(first_item, "string") THEN first_item.v["string"]
             ELSE IF first_item.k = "str" THEN first_item
             ELSE IF first_item.k = "obj" THEN extract_object_value(first_item.v)
             ELSE Stringified
    ELSE Stringified

\* parse_event: the extract_field closure applied to a value that is present
extract_field(value) ==
    IF value.k = "str" THEN value
    ELSE IF value.k = "obj" THEN extract_object_value(value.v)
    ELSE IF value.k = "num" THEN value
    ELSE IF value.k = "arr" /\ Len(value.v) > 0 /\ value.v[1].k = "str" THEN value.v[1]
    ELSE IF value.k = "arr" /\ Len(value.v) > 0 /\ value.v[1].k = "obj"
    THEN extract_object_value(value.v[1].v)
    ELSE Stringified

\* parse_event: field_mappings, per target the source keys in table order (a
\* later source overwrites an earlier one)
field_mappings ==
    [profile_id |-> <<"profile_id", "id">>,
     owner_address |-> <<"owner_address", "owner">>,
     display_name |-> <<"display_name">>,
     bio |-> <<"bio">>,
     profile_photo |-> <<"profile_photo", "profile_picture">>,
     cover_photo |-> <<"cover_url", "cover_photo">>,
     created_at |-> <<"created_at">>,
     username |-> <<"username">>]

\* parse_event: the custom event built from the fields container
custom_event(fields) ==
    LET targets == {t \in DOMAIN field_mappings : FirstKey(fields, field_mappings[t]) # ""}
    IN  JObj([t \in targets |->
                 extract_field(fields.v[FirstKey(fields, field_mappings[t])])])

\* parse_event: the fields container looked for before anything else
fields_container(json) ==
    IF Has(json, "fields")
    THEN IF json.v["fields"].k = "obj" THEN Some(json.v["fields"]) ELSE None
    ELSE IF Has(json, "content") /\ Has(json.v["content"], "fields")
            /\ json.v["content"].v["fields"].k = "obj"
    THEN Some(json.v["content"].v["fields"])
    ELSE None

\* parse_event: the unwrapped value tried after direct deserialization
unwrapped(json) ==
    IF Has(json, "fields") THEN json.v["fields"]
    ELSE IF Has(json, "content")
    THEN IF Has(json.v["content"], "fields") THEN json.v["content"].v["fields"]
         ELSE json.v["content"]
    ELSE IF Has(json, "value") THEN json.v["value"]
    ELSE IF Has(json, "data") THEN json.v["data"]
    ELSE IF Has(json, "parsed_json") THEN json.v["parsed_json"]
    ELSE json

\* parse_event::<ProfileCreatedEvent>
parse_event(json) ==
    LET fields == fields_container(json)
        custom == IF fields = None THEN DecodeError
                  ELSE from_value(custom_event(CHOOSE f \in fields : TRUE))
    IN  IF custom.ok THEN custom
        ELSE IF from_value(json).ok THEN from_value(json)
        ELSE from_value(unwrapped(json))

\* try_manual_profile_parse: a string member of fields, else of the object
ManualString(fields, obj, keys) ==
    IF FirstKey(fields, keys) # "" /\ fields.v[FirstKey(fields, keys)].k = "str"
    THEN Some(fields.v[FirstKey(fields, keys)].v)
    ELSE IF FirstKey(obj, keys) # "" /\ obj.v[FirstKey(obj, keys)].k = "str"
    THEN Some(obj.v[FirstKey(obj, keys)].v)
    ELSE None

UnwrapOr(option, default) == IF option = None THEN default ELSE CHOOSE x \in option : TRUE

\* try_manual_profile_parse: bio as string or as vec[0].string
ManualBio(fields, obj) ==
    LET key == IF "bio" \in DOMAIN fields.v THEN Some(fields.v["bio"])
               ELSE IF "bio" \in DOMAIN obj.v THEN Some(obj.v["bio"])
               ELSE None
        b == CHOOSE x \in key : TRUE
    IN  IF key = None THEN None
        ELSE IF b.k = "str" THEN Some(b.v)
        ELSE IF b.k = "obj"
        THEN IF /\ "vec" \in DOMAIN b.v /\ b.v["vec"].k = "arr" /\ Len(b.v["vec"].v) > 0
                /\ Has(b.v["vec"].v[1], "string")
                /\ b.v["vec"].v[1].v["string"].k = "str"
             THEN Some(b.v["vec"].v[1].v["string"].v)
             ELSE Some("")
        ELSE None

\* try_manual_profile_parse: the event it builds
try_manual_profile_parse(data) ==
    IF data.k # "obj" THEN DecodeError
    ELSE LET fields == IF Has(data, "fields") /\ data.v["fields"].k = "obj"
                       THEN data.v["fields"] ELSE data
         IN  [ok |-> TRUE,
              event |-> TypedProfileCreatedEvent(
                  UnwrapOr(ManualString(fields, data, <<"profile_id">>), "unknown"),
                  UnwrapOr(ManualString(fields, data, <<"owner_address", "owner">>),
                           "unknown"),
                  Some(UnwrapOr(ManualString(fields, data, <<"username">>), "unknown")),
                  UnwrapOr(ManualString(fields, data, <<"display_name">>), ""),
                  ManualBio(fields, data),
                  ManualString(fields, data, <<"profile_picture", "profile_photo",
                                               "avatar_url">>),
                  ManualString(fields, data, <<"cover_photo">>),
                  now)]

\* the ::ProfileCreatedEvent branch of the listener: parse_event, and the
\* manual extraction when it fails
decode(data) ==
    IF parse_event(data).ok THEN parse_event(data) ELSE try_manual_profile_parse(data)

\* logical payloads and their wire encodings
NoPayload ==
    [profile_id |-> None, owner_address |-> "-", username |-> None,
     display_name |-> "-", bio |-> None, profile_photo |-> None, created_at |-> 0]

Payloads ==
    [profile_id : {None} \cup {Some(x) : x \in ProfileIds},
     owner_address : OwnerAddrs,
     username : {None} \cup {Some(x) : x \in Usernames},
     display_name : {"Al"},
     bio : {None, Some("hi")},
     profile_photo : {None, Some("ipfs://pic")},
     created_at : EventTimes]

Nestings == {"flat", "fields", "content.fields"}
BioEncodings == {"plain", "vec"}

\* the flat JSON object of a payload; bio plain or as a Move option
FlatJson(p, bio_encoding) ==
    LET keys == {"owner_address", "display_name", "created_at"}
                \cup (IF p.profile_id = None THEN {} ELSE {"profile_id"})
                \cup (IF p.username = None THEN {} ELSE {"username"})
                \cup (IF p.bio = None THEN {} ELSE {"bio"})
                \cup (IF p.profile_photo = None THEN {} ELSE {"profile_photo"})
    IN  JObj([key \in keys |->
            CASE key = "profile_id" -> JStr(CHOOSE x \in p.profile_id : TRUE)
              [] key = "owner_address" -> JStr(p.owner_address)
              [] key = "username" -> JStr(CHOOSE x \in p.username : TRUE)
              [] key = "display_name" -> JStr(p.display_name)
              [] key = "profile_photo" -> JStr(CHOOSE x \in p.profile_photo : TRUE)
              [] key = "created_at" -> JNum(p.created_at)
              [] key = "bio" ->
                    IF bio_encoding = "vec"
                    THEN JObj([m \in {"vec"} |->
                             JArr(<<JObj([n \in {"string"} |->
                                            JStr(CHOOSE x \in p.bio : TRUE)])>>)])
                    ELSE JStr(CHOOSE x \in p.bio : TRUE)])

Encode(p, enc) ==
    CASE enc.nesting = "flat" -> FlatJson(p, enc.bio)
      [] enc.nesting = "fields" -> JObj([m \in {"fields"} |-> FlatJson(p, enc.bio)])
      [] enc.nesting = "content.fields" ->
             JObj([m \in {"content"} |->
                     JObj([n \in {"fields"} |-> FlatJson(p, enc.bio)])])

(***************************************************************************)
(* The clock.                                                              *)
(***************************************************************************)
Tick ==
    /\ now < MaxTime
    /\ now' = now + 1
    /\ UNCHANGED <<tables, logs, history, indexer_progress, pipe, decoding, forwarding>>

Init ==
    /\ platforms = EmptyBag
    /\ platform_moderators = EmptyBag
    /\ platform_blocked_profiles = EmptyBag
    /\ platform_memberships = EmptyBag
    /\ platform_events = 0
    /\ profiles = EmptyBag
    /\ social_graph_relationships = EmptyBag
    /\ social_graph_events = 0
    /\ profiles_blocked = EmptyBag
    /\ profile_events = 0
    /\ now = 0
    /\ last = NoEvent
    /\ repeat = 0
    /\ outcome = "-"
    /\ everApproved = {}
    /\ seenProfiles = {}
    /\ indexer_progress = None
    /\ scenario = [on |-> TRUE, step |-> 0]
    /\ chain = <<>>
    /\ session = "connecting"
    /\ last_seen_timestamp = 0
    /\ rx = [h \in Handlers |-> <<>>]
    /\ task_running = [h \in Handlers |-> TRUE]
    /\ forwarded = <<>>
    /\ handled = [h \in Handlers |-> <<>>]
    /\ fault = "none"
    /\ cursor = 1
    /\ missed = {}
    /\ payload = NoPayload
    /\ encoding = [nesting |-> "-", bio |-> "-"]
    /\ decoded = DecodeError
    /\ event_type = <<>>
    /\ sending = NotSending
    /\ send_log = <<>>

PlatformCreated ==
    \E p \in PlatformIds, n \in PlatformTitles, d \in Addrs :
        /\ process_platform_created_event(p, n, d)
        /\ UNCHANGED <<pipe, decoding, forwarding>>
PlatformUpdated ==
    \E p \in PlatformIds, n \in PlatformTitles, t \in EventTimes :
        /\ process_platform_updated_event(p, n, t)
        /\ UNCHANGED <<pipe, decoding, forwarding>>
ModeratorAdded ==
    \E p \in PlatformIds, m \in Addrs, by \in Addrs :
        /\ process_moderator_added_event(p, m, by)
        /\ UNCHANGED <<pipe, decoding, forwarding>>
ModeratorRemoved ==
    \E p \in PlatformIds, m \in Addrs :
        /\ process_moderator_removed_event(p, m)
        /\ UNCHANGED <<pipe, decoding, forwarding>>
ProfileBlocked ==
    \E p \in PlatformIds, u \in ProfileIds, by \in Addrs :
        /\ process_profile_blocked_event(p, u, by)
        /\ UNCHANGED <<pipe, decoding, forwarding>>
ProfileUnblocked ==
    \E p \in PlatformIds, u \in ProfileIds :
        /\ process_profile_unblocked_event(p, u)
        /\ UNCHANGED <<pipe, decoding, forwarding>>
PlatformApprovalChanged ==
    \E p \in PlatformIds, f \in BOOLEAN, by \in Addrs, t \in EventTimes :
        /\ process_platform_approval_changed_event(p, f, by, t)
        /\ UNCHANGED <<pipe, decoding, forwarding>>
UserJoinedPlatform ==
    \E u \in ProfileIds, p \in PlatformIds, t \in EventTimes :
        /\ process_user_joined_platform_event(u, p, t)
        /\ UNCHANGED <<pipe, decoding, forwarding>>
UserLeftPlatform ==
    \E u \in ProfileIds, p \in PlatformIds, t \in EventTimes :
        /\ process_user_left_platform_event(u, p, t)
        /\ UNCHANGED <<pipe, decoding, forwarding>>

PlatformNext ==
    \/ PlatformCreated
    \/ PlatformUpdated
    \/ ModeratorAdded
    \/ ModeratorRemoved
    \/ ProfileBlocked
    \/ ProfileUnblocked
    \/ PlatformApprovalChanged
    \/ UserJoinedPlatform
    \/ UserLeftPlatform
    \/ Tick

SpecPlatform == Init /\ [][PlatformNext]_vars

ProfileCreated ==
    \E u \in ProfileIds, o \in OwnerAddrs, t \in EventTimes,
       n \in {None} \cup {Some(x) : x \in Usernames}, timestamp_ms \in EventTimes :
        /\ process_profile_created(u, o, n, DefaultDisplayName, None, t)
        /\ update_progress(timestamp_ms)
        /\ UNCHANGED <<pipe, decoding, forwarding>>
Follow ==
    \E a \in ProfileIds, b \in ProfileIds,
       t \in {None} \cup {Some(x) : x \in EventTimes} :
        /\ process_follow_event(a, b, t)
        /\ UNCHANGED <<pipe, decoding, forwarding>>
Unfollow ==
    \E a \in ProfileIds, b \in ProfileIds :
        /\ process_unfollow_event(a, b)
        /\ UNCHANGED <<pipe, decoding, forwarding>>
UserBlock ==
    \E a \in ProfileIds \cup {""}, b \in ProfileIds \cup {""},
       timestamp_ms \in EventTimes :
        /\ process_profile_block_event(a, b)
        /\ update_progress(timestamp_ms)
        /\ UNCHANGED <<pipe, decoding, forwarding>>
UserUnblock ==
    \E a \in ProfileIds \cup {""}, b \in ProfileIds \cup {""},
       timestamp_ms \in EventTimes :
        /\ process_profile_unblock_event(a, b)
        /\ update_progress(timestamp_ms)
        /\ UNCHANGED <<pipe, decoding, forwarding>>

\* display names and bios the profile events of the update model carry
DisplayNames == {"Al", "Alice"}
Bios == {"hi"}

\* a ProfileCreated event with its descriptive fields
ProfileCreatedWithDetails ==
    \E u \in ProfileIds, o \in OwnerAddrs, t \in EventTimes,
       n \in {None} \cup {Some(x) : x \in Usernames}, d \in DisplayNames,
       b \in {None} \cup {Some(x) : x \in Bios} :
        /\ process_profile_created(u, o, n, d, b, t)
        /\ update_progress(t)
        /\ UNCHANGED <<pipe, decoding, forwarding>>
\* the worker takes a ProfileUpdatedEvent of a checkpoint
ProfileUpdated ==
    \E u \in ProfileIds, d \in {None} \cup {Some(x) : x \in DisplayNames},
       b \in {None} \cup {Some(x) : x \in Bios}, t \in EventTimes :
        /\ process_profile_updated(u, d, b, t)
        /\ UNCHANGED <<indexer_progress, pipe, decoding, forwarding>>

\* profiles created and updated
ProfileUpdateNext ==
    \/ ProfileCreatedWithDetails
    \/ ProfileUpdated
    \/ Tick

SpecProfileUpdate == Init /\ [][ProfileUpdateNext]_vars

\* the profile listener and the social-graph handler, interleaved
SocialNext ==
    \/ ProfileCreated
    \/ Follow
    \/ Unfollow
    \/ Tick

SpecSocial == Init /\ [][SocialNext]_vars

\* user-level blocking
BlockingNext ==
    \/ UserBlock
    \/ UserUnblock
    \/ Tick

SpecBlocking == Init /\ [][BlockingNext]_vars

\* the profile listener takes a ::PlatformBlockedProfileEvent
ListenerPlatformBlocked ==
    \E p \in PlatformIds \cup {""}, u \in ProfileIds \cup {""}, by \in Addrs,
       timestamp_ms \in EventTimes :
        /\ process_platform_block_event(p, u, by)
        /\ update_progress(timestamp_ms)
        /\ UNCHANGED <<pipe, decoding, forwarding>>
\* the profile listener takes a ::PlatformUnblockedProfileEvent
ListenerPlatformUnblocked ==
    \E p \in PlatformIds \cup {""}, u \in ProfileIds \cup {""},
       timestamp_ms \in EventTimes :
        /\ process_platform_unblock_event(p, u)
        /\ update_progress(timestamp_ms)
        /\ UNCHANGED <<pipe, decoding, forwarding>>

\* platform-level block events, which the listener fans out to the profile
\* listener and to the platform handler
PlatformBlockNext ==
    \/ ListenerPlatformBlocked
    \/ ListenerPlatformUnblocked
    \/ ProfileBlocked
    \/ ProfileUnblocked
    \/ Tick

SpecPlatformBlock == Init /\ [][PlatformBlockNext]_vars

\* the profile listener and the platform handler racing on join events
OrderNext ==
    \/ ProfileCreated
    \/ PlatformCreated
    \/ PlatformApprovalChanged
    \/ UserJoinedPlatform

SpecOrder == Init /\ [][OrderNext]_vars

(***************************************************************************)
(* The profile listener decoding and applying one raw event.               *)
(***************************************************************************)
\* the listener receives one ::ProfileCreatedEvent with a raw payload
ProfileCreatedRaw ==
    \E p \in Payloads, nesting \in Nestings, bio_encoding \in BioEncodings,
       timestamp_ms \in EventTimes :
        \E enc \in {[nesting |-> nesting, bio |-> bio_encoding]} :
        \E d \in {decode(Encode(p, enc))} :
            /\ BagCardinality(profiles) < MaxDecodedProfiles
            /\ bio_encoding = "vec" => p.bio # None
            /\ payload' = p
            /\ encoding' = enc
            /\ decoded' = d
            /\ IF d.ok
               THEN process_profile_created(d.event.profile_id, d.event.owner_address,
                                            d.event.username, d.event.display_name,
                                            d.event.bio, d.event.created_at)
               ELSE Failed(Event("ProfileCreated", "-", "-", "-", "-", FALSE, None))
            /\ update_progress(timestamp_ms)
            /\ UNCHANGED <<pipe, event_type, forwarding>>

DecoderNext ==
    \/ ProfileCreatedRaw
    \/ Tick

SpecDecoder == Init /\ [][DecoderNext]_vars

(***************************************************************************)
(* Classification of raw events by type name.  A type name is the sequence *)
(* of its tokens, the separator "::" being a token of its own, so that     *)
(* str::contains and str::ends_with become sub-sequence tests.             *)
(***************************************************************************)
Contains(s, pat) ==
    \E i \in 0..(Len(s) - Len(pat)) : SubSeq(s, i + 1, i + Len(pat)) = pat
EndsWith(s, pat) ==
    Len(s) >= Len(pat) /\ SubSeq(s, Len(s) - Len(pat) + 1, Len(s)) = pat

\* the fixed table of type-name suffixes the registered handlers know
KnownSuffixes ==
    {"PlatformCreatedEvent", "PlatformUpdatedEvent", "ModeratorAddedEvent",
     "ModeratorRemovedEvent", "PlatformBlockedProfileEvent",
     "PlatformUnblockedProfileEvent", "PlatformApprovalChangedEvent",
     "UserJoinedPlatformEvent", "UserLeftPlatformEvent", "FollowEvent", "UnfollowEvent",
     "ProfileCreatedEvent", "UserBlockEvent", "UserUnblockEvent", "BlockListCreatedEvent"}
HasKnownSuffix(s) == \E k \in KnownSuffixes : EndsWith(s, <<"::", k>>)

\* PlatformEventType::from_str: the first arm whose name the type name contains
from_str(s) ==
    IF Contains(s, <<"::", "PlatformCreatedEvent">>) THEN Some("PlatformCreated")
    ELSE IF Contains(s, <<"::", "PlatformUpdatedEvent">>) THEN Some("PlatformUpdated")
    ELSE IF Contains(s, <<"::", "ModeratorAddedEvent">>) THEN Some("ModeratorAdded")
    ELSE IF Contains(s, <<"::", "ModeratorRemovedEvent">>) THEN Some("ModeratorRemoved")
    ELSE IF Contains(s, <<"::", "PlatformBlockedProfileEvent">>) THEN Some("ProfileBlocked")
    ELSE IF Contains(s, <<"::", "PlatformUnblockedProfileEvent">>) THEN Some("ProfileUnblocked")
    ELSE IF Contains(s, <<"::", "PlatformApprovalChangedEvent">>)
         THEN Some("PlatformApprovalChanged")
    ELSE IF Contains(s, <<"::", "UserJoinedPlatformEvent">>) THEN Some("UserJoinedPlatform")
    ELSE IF Contains(s, <<"::", "UserLeftPlatformEvent">>) THEN Some("UserLeftPlatform")
    ELSE None

\* the type names the chain emits in the classification model
TypeNames ==
    {<<"0x2", "::", "platform", "::", "PlatformCreatedEvent">>,
     <<"0x2", "::", "platform", "::", "PlatformCreatedEvent", "V2">>,
     <<"0x2", "::", "platform", "::", "PlatformDeletedEvent">>,
     <<"0x2", "::", "social_graph", "::", "FollowEvent">>,
     <<"0x2", "::", "social_graph", "::", "FollowEvent", "V2">>,
     <<"0x2", "::", "profile", "::", "ProfileDeletedEvent">>,
     <<"0x2", "::", "block_list", "::", "BlockProfileEvent">>,
     <<"0x2", "::", "coin", "::", "TransferEvent">>}

\* no arm matched: the event is dropped and process_event returns Ok
Dropped ==
    /\ Record(Event("Unrecognized", "-", "-", "-", "-", FALSE, None), "dropped")
    /\ UNCHANGED <<tables, logs, now, everApproved, seenProfiles>>

\* the match of PlatformEventHandler::process_event on the classified kind
PlatformMatch(kind) ==
    \/ /\ kind = "PlatformCreated"
       /\ \E p \in PlatformIds, n \in PlatformTitles, d \in Addrs :
              process_platform_created_event(p, n, d)
    \/ /\ kind = "PlatformUpdated"
       /\ \E p \in PlatformIds, n \in PlatformTitles, t \in EventTimes :
              process_platform_updated_event(p, n, t)
    \/ /\ kind = "ModeratorAdded"
       /\ \E p \in PlatformIds, m \in Addrs, by \in Addrs :
              process_moderator_added_event(p, m, by)
    \/ /\ kind = "ModeratorRemoved"
       /\ \E p \in PlatformIds, m \in Addrs : process_moderator_removed_event(p, m)
    \/ /\ kind = "ProfileBlocked"
       /\ \E p \in PlatformIds, u \in ProfileIds, by \in Addrs :
              process_profile_blocked_event(p, u, by)
    \/ /\ kind = "ProfileUnblocked"
       /\ \E p \in PlatformIds, u \in ProfileIds : process_profile_unblocked_event(p, u)
    \/ /\ kind = "PlatformApprovalChanged"
       /\ \E p \in PlatformIds, f \in BOOLEAN, by \in Addrs, t \in EventTimes :
              process_platform_approval_changed_event(p, f, by, t)
    \/ /\ kind = "UserJoinedPlatform"
       /\ \E u \in ProfileIds, p \in PlatformIds, t \in EventTimes :
              process_user_joined_platform_event(u, p, t)
    \/ /\ kind = "UserLeftPlatform"
       /\ \E u \in ProfileIds, p \in PlatformIds, t \in EventTimes :
              process_user_left_platform_event(u, p, t)
    \/ \* serde_json::from_value(..)? : the payload does not deserialize
       /\ kind # "PlatformCreated"
       /\ Failed(Event(kind, "-", "-", "-", "-", FALSE, None))
       /\ UNCHANGED indexer_progress

\* PlatformEventHandler::process_event on one raw event
PlatformProcessEvent ==
    \E type_name \in TypeNames :
        /\ event_type' = type_name
        /\ IF Contains(type_name, <<"BlockProfileEvent">>)
           THEN Dropped /\ UNCHANGED indexer_progress
           ELSE IF from_str(type_name) = None
           THEN Dropped /\ UNCHANGED indexer_progress
           ELSE \E kind \in from_str(type_name) : PlatformMatch(kind)
        /\ UNCHANGED <<pipe, payload, encoding, decoded, forwarding>>

\* SocialGraphEventHandler::process_event on one raw event
SocialGraphProcessEvent ==
    \E type_name \in TypeNames :
        /\ event_type' = type_name
        /\ IF \/ Contains(type_name, <<"::", "social_graph", "::">>)
              \/ Contains(type_name, <<"::", "FollowEvent">>)
              \/ Contains(type_name, <<"::", "UnfollowEvent">>)
           THEN IF EndsWith(type_name, <<"::", "FollowEvent">>)
                THEN \/ \E a \in ProfileIds, b \in ProfileIds,
                           t \in {None} \cup {Some(x) : x \in EventTimes} :
                            process_follow_event(a, b, t)
                     \/ /\ Failed(Event("Follow", "-", "-", "-", "-", FALSE, None))
                        /\ UNCHANGED indexer_progress
                ELSE IF EndsWith(type_name, <<"::", "UnfollowEvent">>)
                THEN \/ \E a \in ProfileIds, b \in ProfileIds : process_unfollow_event(a, b)
                     \/ /\ Failed(Event("Unfollow", "-", "-", "-", "-", FALSE, None))
                        /\ UNCHANGED indexer_progress
                ELSE Dropped /\ UNCHANGED indexer_progress
           ELSE Dropped /\ UNCHANGED indexer_progress
        /\ UNCHANGED <<pipe, payload, encoding, decoded, forwarding>>

\* ProfileEventListener::start on one raw event: the chain of type-name tests
ProfileListenerProcessEvent ==
    \E type_name \in TypeNames, timestamp_ms \in EventTimes :
        /\ event_type' = type_name
        /\ IF Contains(type_name, <<"::", "profile", "::">>)
           THEN /\ IF EndsWith(type_name, <<"::", "ProfileCreatedEvent">>)
                   THEN \/ \E u \in ProfileIds, o \in OwnerAddrs, t \in EventTimes,
                              n \in {None} \cup {Some(x) : x \in Usernames} :
                               process_profile_created(u, o, n, DefaultDisplayName, None, t)
                        \/ Failed(Event("ProfileCreated", "-", "-", "-", "-", FALSE, None))
                   ELSE Dropped
                /\ update_progress(timestamp_ms)
           ELSE IF EndsWith(type_name, <<"::", "PlatformBlockedProfileEvent">>)
           THEN /\ \E p \in PlatformIds \cup {""}, u \in ProfileIds \cup {""}, by \in Addrs :
                       process_platform_block_event(p, u, by)
                /\ update_progress(timestamp_ms)
           ELSE IF EndsWith(type_name, <<"::", "PlatformUnblockedProfileEvent">>)
           THEN /\ \E p \in PlatformIds \cup {""}, u \in ProfileIds \cup {""} :
                       process_platform_unblock_event(p, u)
                /\ update_progress(timestamp_ms)
           ELSE IF EndsWith(type_name, <<"::", "UserBlockEvent">>)
           THEN /\ \E a \in ProfileIds \cup {""}, b \in ProfileIds \cup {""} :
                       process_profile_block_event(a, b)
                /\ update_progress(timestamp_ms)
           ELSE IF EndsWith(type_name, <<"::", "UserUnblockEvent">>)
           THEN /\ \E a \in ProfileIds \cup {""}, b \in ProfileIds \cup {""} :
                       process_profile_unblock_event(a, b)
                /\ update_progress(timestamp_ms)
           ELSE Dropped /\ UNCHANGED indexer_progress
        /\ UNCHANGED <<pipe, payload, encoding, decoded, forwarding>>

\* every raw event reaches the three registered handlers, each of which
\* classifies it by itself
RouterNext ==
    \/ PlatformProcessEvent
    \/ SocialGraphProcessEvent
    \/ ProfileListenerProcessEvent
    \/ Tick

SpecRouter == Init /\ [][RouterNext]_vars

(***************************************************************************)
(* Transport and consumer loops: blockchain/listener.rs, main.rs           *)
(***************************************************************************)
\* the typed events the chain emits in the transport model
ChainEventKinds ==
    {Event("ProfileCreated", "-", "u1", "0xa11ce0000001", "alice", FALSE, Some(0)),
     Event("UserBlock", "-", "u1", "u2", "-", FALSE, None),
     Event("Follow", "-", "u1", "u1", "-", FALSE, None),
     Event("PlatformCreated", "p1", "-", "0xdev", "Alpha", FALSE, None)}

\* BlockchainEvent: event_id, typed payload, timestamp
BlockchainEvent(event_id, ev, timestamp_ms) ==
    [event_id |-> event_id, ev |-> ev, timestamp_ms |-> timestamp_ms]

\* timestamp of the newest event the chain has emitted
ChainClock ==
    LET stamped == {i \in 1..Len(chain) : chain[i].timestamp_ms # None}
    IN  IF stamped = {} THEN 1
        ELSE (CHOOSE t \in chain[CHOOSE i \in stamped : \A j \in stamped : j <= i].timestamp_ms :
                  TRUE)

\* the chain emits one more event once the listener has started; timestamps
\* do not decrease
Emit ==
    \E ev \in ChainEventKinds,
       ts \in {None} \cup {Some(t) : t \in ChainClock..MaxChainTime} :
        /\ session # "connecting"
        /\ Len(chain) < MaxChainEvents
        /\ chain' = Append(chain, [event_id |-> Len(chain) + 1, ev |-> ev,
                                   timestamp_ms |-> ts])
        /\ missed' = IF session = "down" THEN missed \cup {Len(chain) + 1} ELSE missed
        /\ UNCHANGED <<tables, logs, now, history, indexer_progress, decoding, forwarding, session,
                       last_seen_timestamp, rx, task_running, forwarded, handled, fault,
                       cursor>>

\* BlockchainEventListener::process_event for a batch: every event goes to
\* every registered channel whose receiver still exists
process_event(events) ==
    /\ rx' = [h \in Handlers |-> IF task_running[h] THEN rx[h] \o events ELSE rx[h]]
    /\ forwarded' = forwarded \o events

\* start_ws_listener connects and subscribes: the stream yields the events
\* emitted from now on
Subscribe ==
    /\ session \in {"connecting", "down"}
    /\ session' = "ws"
    /\ cursor' = Len(chain) + 1
    /\ UNCHANGED <<tables, logs, now, history, indexer_progress, decoding, forwarding, chain,
                   last_seen_timestamp, rx, task_running, forwarded, handled, fault,
                   missed>>

\* SystemTime::now() at the start of the polling listener, on the scale of the
\* chain's timestamps: the newest event's timestamp (0 before the first one)
StartClock ==
    IF \E i \in 1..Len(chain) : chain[i].timestamp_ms # None THEN ChainClock ELSE 0

\* start: the websocket connection failed, fall back to polling
FallBackToPolling ==
    /\ session \in {"connecting", "down"}
    /\ session' = "polling"
    /\ last_seen_timestamp' = StartClock
    /\ UNCHANGED <<tables, logs, now, history, indexer_progress, decoding, forwarding, chain,
                   rx, task_running, forwarded, handled, fault, cursor, missed>>

\* one item of the subscription stream
WsEvent ==
    /\ session = "ws"
    /\ \E h \in Handlers : task_running[h]
    /\ cursor <= Len(chain)
    /\ cursor' = cursor + 1
    /\ LET event == chain[cursor]
           timestamp_ms == IF event.timestamp_ms = None THEN now
                           ELSE CHOOSE t \in event.timestamp_ms : TRUE
       IN  process_event(<<BlockchainEvent(event.event_id, event.ev, timestamp_ms)>>)
    /\ UNCHANGED <<tables, logs, now, history, indexer_progress, decoding, forwarding, chain, session,
                   last_seen_timestamp, task_running, handled, fault, missed>>

\* query_events(filter, None, Some(batch_size), descending), reversed
NewestBatch ==
    SubSeq(chain, IF Len(chain) > BatchSize THEN Len(chain) - BatchSize + 1 ELSE 1,
           Len(chain))

\* the for loop of one poll over the batch, oldest first
RECURSIVE PollBatch(_, _, _)
PollBatch(events, seen, out) ==
    IF events = <<>> THEN [seen |-> seen, out |-> out]
    ELSE LET event == Head(events)
             event_timestamp == IF event.timestamp_ms = None THEN 0
                                ELSE CHOOSE t \in event.timestamp_ms : TRUE
             timestamp_ms == IF event.timestamp_ms = None THEN now
                             ELSE CHOOSE t \in event.timestamp_ms : TRUE
         IN  IF event_timestamp <= seen
             THEN PollBatch(Tail(events), seen, out)
             ELSE PollBatch(Tail(events), timestamp_ms,
                            Append(out, BlockchainEvent(event.event_id, event.ev,
                                                        timestamp_ms)))

\* one iteration of the polling loop
Poll ==
    /\ session = "polling"
    /\ \E h \in Handlers : task_running[h]
    /\ LET polled == PollBatch(NewestBatch, last_seen_timestamp, <<>>)
       IN  /\ last_seen_timestamp' = polled.seen
           /\ process_event(polled.out)
    /\ UNCHANGED <<tables, logs, now, history, indexer_progress, decoding, forwarding, chain, session,
                   task_running, handled, fault, cursor, missed>>

\* variant: the consumer takes the newest event of its channel
Recv_newest(queue) == [event |-> queue[Len(queue)], rest |-> SubSeq(queue, 1, Len(queue) - 1)]

\* rx.recv(): the consumer takes the oldest event of its channel
Recv(queue) == [event |-> Head(queue), rest |-> Tail(queue)]

\* the loop of handler h took one event and goes on to the next
Taken(h, f) ==
    /\ rx' = [rx EXCEPT ![h] = Recv(rx[h]).rest]
    /\ handled' = [handled EXCEPT ![h] = Append(@, Recv(rx[h]).event)]
    /\ fault' = f
    /\ UNCHANGED <<chain, session, last_seen_timestamp, forwarded, task_running, decoding, forwarding,
                   cursor, missed>>

\* start returned: the task ends, main's select! completes and the process exits
Terminated(h, f) ==
    /\ rx' = [rx EXCEPT ![h] = Recv(rx[h]).rest]
    /\ handled' = [handled EXCEPT ![h] = Append(@, Recv(rx[h]).event)]
    /\ fault' = f
    /\ task_running' = [x \in Handlers |-> FALSE]
    /\ UNCHANGED <<chain, session, last_seen_timestamp, forwarded, decoding, forwarding, cursor,
                   missed>>

\* ProfileEventListener::start, one iteration
ProfileListenerStep ==
    /\ task_running["profile"]
    /\ rx["profile"] # <<>>
    /\ LET event == Recv(rx["profile"]).event
           e == event.ev
       IN  IF e.type = "ProfileCreated"
           THEN \/ /\ process_profile_created(e.profile_id, e.a,
                                               IF e.b = "-" THEN None ELSE Some(e.b),
                                               DefaultDisplayName, None,
                                               CHOOSE t \in e.ts : TRUE)
                   /\ update_progress(event.timestamp_ms)
                   /\ Taken("profile", "none")
                \/ \E f \in {"decode", "database"} :
                       /\ Failed(e)
                       /\ update_progress(event.timestamp_ms)
                       /\ Taken("profile", f)
                \/ /\ Failed(e)
                   /\ UNCHANGED indexer_progress
                   /\ Taken("profile", "pool")
           ELSE IF e.type = "UserBlock"
           THEN \/ /\ process_profile_block_event(e.profile_id, e.a)
                   /\ update_progress(event.timestamp_ms)
                   /\ Taken("profile", "none")
                \/ \E f \in {"decode", "database"} :
                       /\ Failed(e)
                       /\ update_progress(event.timestamp_ms)
                       /\ Taken("profile", f)
                \/ /\ process_profile_block_event_log_error(e.profile_id, e.a)
                   /\ update_progress(event.timestamp_ms)
                   /\ Taken("profile", "database")
                \/ \* get_connection().await? inside the loop
                   /\ Failed(e)
                   /\ UNCHANGED indexer_progress
                   /\ Terminated("profile", "pool")
           ELSE /\ UNCHANGED <<tables, logs, now, history, indexer_progress>>
                /\ Taken("profile", "none")

\* SocialGraphEventHandler::start, one iteration
SocialGraphHandlerStep ==
    /\ task_running["social_graph"]
    /\ rx["social_graph"] # <<>>
    /\ LET event == Recv(rx["social_graph"]).event
           e == event.ev
       IN  IF e.type = "Follow"
           THEN \/ /\ process_follow_event(e.profile_id, e.a, e.ts)
                   /\ Taken("social_graph", "none")
                \/ \E f \in Faults \ {"none"} :
                       /\ Failed(e)
                       /\ UNCHANGED indexer_progress
                       /\ Taken("social_graph", f)
           ELSE /\ UNCHANGED <<tables, logs, now, history, indexer_progress>>
                /\ Taken("social_graph", "none")

\* PlatformEventHandler::start, one iteration
PlatformHandlerStep ==
    /\ task_running["platform"]
    /\ rx["platform"] # <<>>
    /\ LET event == Recv(rx["platform"]).event
           e == event.ev
       IN  IF e.type = "PlatformCreated"
           THEN \/ /\ process_platform_created_event(e.platform_id, e.b, e.a)
                   /\ Taken("platform", "none")
                \/ \E f \in Faults \ {"none"} :
                       /\ Failed(e)
                       /\ UNCHANGED indexer_progress
                       /\ Taken("platform", f)
           ELSE /\ UNCHANGED <<tables, logs, now, history, indexer_progress>>
                /\ Taken("platform", "none")

\* the listener alone
ListenerNext ==
    \/ Subscribe
    \/ FallBackToPolling
    \/ Emit
    \/ WsEvent
    \/ Poll
    \/ Tick

SpecListener == Init /\ [][ListenerNext]_vars

\* the subscription stream keeps yielding items and the polling interval keeps
\* ticking for as long as the listener task runs
SpecListenerFair == SpecListener /\ WF_vars(WsEvent) /\ WF_vars(Poll)

\* main returns (a task ended, or the process was stopped): the channels and
\* the subscription are dropped, the database keeps its rows
Stop ==
    /\ session \in {"ws", "polling"}
    /\ session' = "down"
    /\ rx' = [h \in Handlers |-> <<>>]
    /\ UNCHANGED <<tables, logs, now, history, indexer_progress, decoding, forwarding, chain,
                   last_seen_timestamp, task_running, forwarded, handled, fault, cursor,
                   missed>>

\* the listener across restarts of the indexer
RestartNext ==
    \/ Subscribe
    \/ FallBackToPolling
    \/ Emit
    \/ WsEvent
    \/ Poll
    \/ Stop
    \/ Tick

SpecRestart == Init /\ [][RestartNext]_vars

SpecRestartFair == SpecRestart /\ WF_vars(WsEvent) /\ WF_vars(Poll)

\* the subscription stream yields the next event and process_event takes the
\* lock on the senders
StreamNext ==
    /\ session = "ws"
    /\ sending = NotSending
    /\ cursor <= Len(chain)
    /\ cursor' = cursor + 1
    /\ LET event == chain[cursor]
           timestamp_ms == IF event.timestamp_ms = None THEN now
                           ELSE CHOOSE t \in event.timestamp_ms : TRUE
       IN  /\ sending' = [event |-> Some(BlockchainEvent(event.event_id, event.ev,
                                                         timestamp_ms)),
                          next |-> 1]
           /\ forwarded' = Append(forwarded,
                                  BlockchainEvent(event.event_id, event.ev, timestamp_ms))
    /\ UNCHANGED <<tables, logs, now, history, indexer_progress, decoding, send_log, chain,
                   session, last_seen_timestamp, rx, task_running, handled, fault, missed>>

\* variant: a full channel is skipped (try_send) instead of waited for
Send_skip_full ==
    /\ sending # NotSending
    /\ LET h == HandlerName[sending.next]
           event == CHOOSE ev \in sending.event : TRUE
       IN  IF task_running[h] /\ Len(rx[h]) < ChannelCapacity
           THEN /\ rx' = [rx EXCEPT ![h] = Append(@, event)]
                /\ send_log' = Append(send_log, [event_id |-> event.event_id,
                                                 handler |-> h, result |-> "sent"])
           ELSE /\ UNCHANGED rx
                /\ send_log' = Append(send_log, [event_id |-> event.event_id,
                                                 handler |-> h, result |-> "error"])
    /\ sending' = IF sending.next = Len(HandlerName) THEN NotSending
                  ELSE [sending EXCEPT !.next = @ + 1]
    /\ UNCHANGED <<tables, logs, now, history, indexer_progress, decoding, chain, session,
                   last_seen_timestamp, task_running, forwarded, handled, fault, cursor,
                   missed>>

\* one iteration of the for loop of process_event: sender.send(event).await
\* returns when the channel has taken the event or has no receiver any more
Send ==
    /\ sending # NotSending
    /\ LET h == HandlerName[sending.next]
           event == CHOOSE ev \in sending.event : TRUE
       IN  IF ~task_running[h]
           THEN /\ UNCHANGED rx
                /\ send_log' = Append(send_log, [event_id |-> event.event_id,
                                                 handler |-> h, result |-> "error"])
           ELSE /\ Len(rx[h]) < ChannelCapacity
                /\ rx' = [rx EXCEPT ![h] = Append(@, event)]
                /\ send_log' = Append(send_log, [event_id |-> event.event_id,
                                                 handler |-> h, result |-> "sent"])
    /\ sending' = IF sending.next = Len(HandlerName) THEN NotSending
                  ELSE [sending EXCEPT !.next = @ + 1]
    /\ UNCHANGED <<tables, logs, now, history, indexer_progress, decoding, chain, session,
                   last_seen_timestamp, task_running, forwarded, handled, fault, cursor,
                   missed>>

\* rx.recv() of a handler's loop takes the oldest event of its channel
HandlerRecv ==
    \E h \in Handlers :
        /\ task_running[h]
        /\ rx[h] # <<>>
        /\ Taken(h, "none")
        /\ UNCHANGED <<tables, logs, now, history, indexer_progress>>

\* the first handler whose start returns: its receiver is dropped while the
\* listener still runs (main's select! then ends the process)
ReceiverDropped ==
    \E h \in Handlers :
        /\ \A x \in Handlers : task_running[x]
        /\ task_running' = [task_running EXCEPT ![h] = FALSE]
        /\ rx' = [rx EXCEPT ![h] = <<>>]
        /\ UNCHANGED <<tables, logs, now, history, indexer_progress, decoding, forwarding,
                       chain, session, last_seen_timestamp, forwarded, handled, fault,
                       cursor, missed>>

\* the listener forwarding over bounded channels
ForwardNext ==
    \/ Subscribe
    \/ Emit
    \/ StreamNext
    \/ Send
    \/ HandlerRecv
    \/ ReceiverDropped

SpecForward == Init /\ [][ForwardNext]_vars

\* the listener feeding the three consumer tasks
PipelineNext ==
    \/ Subscribe
    \/ Emit
    \/ WsEvent
    \/ ProfileListenerStep
    \/ SocialGraphHandlerStep
    \/ PlatformHandlerStep

SpecPipeline == Init /\ [][PipelineNext]_vars

(***************************************************************************)
(* Properties.                                                             *)
(***************************************************************************)

\* C1 (as stated): every platform row with is_approved = false has no
\* membership row, whatever joins were submitted.
C1_UnapprovedHasNoMembers ==
    \A r \in Rows(platforms) :
        ~r.is_approved =>
            ~\E m \in Rows(platform_memberships) : m.platform_id = r.platform_id

\* C1 (amended): every membership row belongs to a platform that was approved
\* at some time; a platform that was never approved has no membership row.
C1_NeverApprovedHasNoMembers ==
    \A m \in Rows(platform_memberships) : m.platform_id \in everApproved

C1_Witness ==
    /\ last.type = "UserJoinedPlatform"
    /\ outcome = "ignored_not_approved"
    /\ \E r \in Rows(platforms) : r.platform_id = last.platform_id /\ ~r.is_approved
    /\ last.platform_id \notin everApproved
    /\ platform_memberships = EmptyBag

\* C2: a join processed while a block row for (platform, profile) exists
\* inserts no membership row.
C2_BlockGatesJoin ==
    [][(/\ last'.type = "UserJoinedPlatform"
        /\ platform_events' # platform_events
        /\ \E b \in Rows(platform_blocked_profiles) :
               b.platform_id = last'.platform_id /\ b.profile_id = last'.profile_id)
       => platform_memberships' = platform_memberships]_vars

C2_Witness ==
    /\ last.type = "UserJoinedPlatform"
    /\ outcome = "ignored_blocked"
    /\ \E r \in Rows(platforms) : r.platform_id = last.platform_id /\ r.is_approved
    /\ \E b \in Rows(platform_blocked_profiles) :
           b.platform_id = last.platform_id /\ b.profile_id = last.profile_id

\* C4 (as stated): after create p1, approve, join u1, block u1, join u1
\* again, there is no membership row for (p1, u1).
C4_BlockedRejoinLeavesNoMembership ==
    (scenario.on /\ scenario.step = 5) =>
        ~\E m \in Rows(platform_memberships) :
            m.platform_id = "p1" /\ m.profile_id = "u1"

\* C4 (amended): after that scenario the membership row of the first join
\* is still the only membership row, next to the block row: the block did
\* not evict and the second join added nothing.
C4_BlockedRejoinAddsNothing ==
    (scenario.on /\ scenario.step = 5) =>
        /\ BagCardinality(platform_memberships) = 1
        /\ \E m \in Rows(platform_memberships) :
               m.platform_id = "p1" /\ m.profile_id = "u1"
        /\ \E b \in Rows(platform_blocked_profiles) :
               b.platform_id = "p1" /\ b.profile_id = "u1"

C4_Witness ==
    /\ scenario.on
    /\ scenario.step = 5
    /\ last.type = "UserJoinedPlatform"
    /\ platform_events = 5

\* C8: a second application of the same ModeratorAdded event changes neither
\* the moderator table nor the platform table; there is one moderator row for
\* the pair and one platform row.
C8_ModeratorAddedIdempotent ==
    [][(/\ last' = last
        /\ last.type = "ModeratorAdded"
        /\ platform_events' # platform_events)
       => /\ platform_moderators' = platform_moderators
          /\ platforms' = platforms
          /\ Count(platform_moderators',
                        {r \in Rows(platform_moderators') : r.platform_id = last.platform_id
                                   /\ r.moderator_address = last.a}) = 1
          /\ Count(platforms',
                        {r \in Rows(platforms') : r.platform_id = last.platform_id}) = 1]_vars

C8_Witness ==
    /\ last.type = "ModeratorAdded"
    /\ repeat = 2
    /\ \E r \in Rows(platforms) : r.platform_id = last.platform_id
                                  /\ r.name = "Unknown Platform (p1)"
    /\ \E m \in Rows(platform_moderators) :
           m.platform_id = last.platform_id /\ m.moderator_address = last.a

\* C10 (as stated): after any PlatformCreated(X, D) the platform X exists,
\* is unapproved with no approval audit fields, and D is its only moderator.
C10_AfterPlatformCreated ==
    last.type = "PlatformCreated" =>
        /\ \E r \in Rows(platforms) : r.platform_id = last.platform_id
        /\ \A r \in Rows(platforms) :
               r.platform_id = last.platform_id =>
                   /\ ~r.is_approved
                   /\ r.approval_changed_at = None
                   /\ r.approved_by = None
        /\ {m.moderator_address : m \in {x \in Rows(platform_moderators) :
                                           x.platform_id = last.platform_id}} = {last.a}

\* C10 (amended): a PlatformCreated(X, D) applied when no platform row for X
\* exists leaves X existing, unapproved, without approval audit fields, and
\* with D as its only moderator.
C10_AfterFirstPlatformCreated ==
    [][\A X \in PlatformIds, D \in Addrs :
          (/\ last'.type = "PlatformCreated"
           /\ last'.platform_id = X
           /\ last'.a = D
           /\ platform_events' # platform_events
           /\ ~\E r \in Rows(platforms) : r.platform_id = X)
          => /\ \E r \in Rows(platforms') : r.platform_id = X
             /\ \A r \in Rows(platforms') :
                    r.platform_id = X =>
                        /\ ~r.is_approved
                        /\ r.approval_changed_at = None
                        /\ r.approved_by = None
             /\ {m.moderator_address : m \in {x \in Rows(platform_moderators') :
                                                x.platform_id = X}} = {D}]_vars

C10_Witness ==
    /\ last.type = "PlatformCreated"
    /\ outcome = "created"
    /\ \E r \in Rows(platforms) : r.platform_id = last.platform_id /\ ~r.is_approved
    /\ \E m \in Rows(platform_moderators) :
           m.platform_id = last.platform_id /\ m.moderator_address = last.a

\* every profile row's counters equal the number of matching relationship rows
CountersConsistent ==
    \A r \in Rows(profiles) :
        /\ r.following_count =
               Count(social_graph_relationships,
                          {x \in Rows(social_graph_relationships) : x.follower_address = r.profile_id})
        /\ r.followers_count =
               Count(social_graph_relationships,
                          {x \in Rows(social_graph_relationships) : x.following_address = r.profile_id})

\* C3: whenever the event processed last is a Follow or an Unfollow, every
\* profile row's followers_count and following_count equal the number of
\* relationship rows that name the profile as followed and as follower.
C3_CounterConsistency ==
    last.type \in {"Follow", "Unfollow"} => CountersConsistent

\* C5 (as stated): a membership row exists only for a profile whose
\* ProfileCreated was processed before the join.
C5_OrderTolerance ==
    \A m \in Rows(platform_memberships) : m.profile_id \in seenProfiles

\* C6: a second application of the same Follow event leaves the profiles and
\* the relationships unchanged and is not an error.
C6_FollowIdempotent ==
    [][(/\ last' = last
        /\ last.type = "Follow"
        /\ social_graph_events' # social_graph_events)
       => /\ social_graph_relationships' = social_graph_relationships
          /\ profiles' = profiles
          /\ outcome' # "error"]_vars

C6_Witness ==
    /\ last.type = "Follow"
    /\ repeat = 2
    /\ outcome = "already_following"
    /\ Count(social_graph_relationships,
                  {x \in Rows(social_graph_relationships) : x.follower_address = last.profile_id
                             /\ x.following_address = last.a}) = 1
    /\ \E r \in Rows(profiles) : r.profile_id = last.profile_id /\ r.following_count = 1

C9_UserBlockIdempotent ==
    [][(/\ last' = last
        /\ last.type = "UserBlock"
        /\ last.profile_id # ""
        /\ last.a # "")
       => /\ profiles_blocked' = profiles_blocked
          /\ Count(profiles_blocked',
                        {r \in Rows(profiles_blocked') : r.blocker_profile_id = last.profile_id
                                   /\ r.blocked_profile_id = last.a}) = 1
          /\ \A r \in Rows(profiles_blocked') :
                 (r.blocker_profile_id = last.profile_id
                  /\ r.blocked_profile_id = last.a)
                     => (r.is_blocked /\ r.unblocked_at = None)]_vars

C9_Witness ==
    /\ last.type = "UserBlock"
    /\ repeat = 2
    /\ outcome = "updated"
    /\ now > 0
    /\ \E r \in Rows(profiles_blocked) :
           /\ r.blocker_profile_id = last.profile_id
           /\ r.blocked_profile_id = last.a
           /\ r.is_blocked
           /\ r.created_at < now

\* C11: for a platform that already exists, a step that is not the processing
\* of a PlatformApprovalChanged event leaves the platform's is_approved,
\* approval_changed_at and approved_by as they were.
C11_ApprovalSingleWriter ==
    [][~(last'.type = "PlatformApprovalChanged" /\ platform_events' # platform_events)
       => \A r \in Rows(platforms) :
              /\ Count(platforms', {x \in Rows(platforms') : x.platform_id = r.platform_id})
                     = Count(platforms, {x \in Rows(platforms) : x.platform_id = r.platform_id})
              /\ \A x \in Rows(platforms') :
                     x.platform_id = r.platform_id =>
                         \E y \in Rows(platforms) :
                             /\ y.platform_id = x.platform_id
                             /\ y.is_approved = x.is_approved
                             /\ y.approval_changed_at = x.approval_changed_at
                             /\ y.approved_by = x.approved_by]_vars

C11_Witness ==
    /\ last.type \in {"PlatformCreated", "PlatformUpdated"}
    /\ outcome = "updated"
    /\ \E r \in Rows(platforms) :
           /\ r.platform_id = last.platform_id
           /\ r.is_approved
           /\ r.approval_changed_at # None
           /\ r.approved_by # None
           /\ r.name = last.b

\* C12: profile identity is stable: every profile_id that has a profile row
\* before a step still has a profile row after it.
C12_ProfileIdStable ==
    [][\A r \in Rows(profiles) :
          \E x \in Rows(profiles') : x.profile_id = r.profile_id]_vars

\* C13: after a consumer step in which handling the event failed (decode
\* failure, database error or no pooled connection), every consumer task is
\* still running.
C13_FailureIsolation ==
    fault # "none" => \A h \in Handlers : task_running[h]

\* C14: for every handler, the events it has taken are a prefix of the events
\* the listener forwarded, in the same order, and a step takes at most one
\* event of one handler; handlers advance independently of each other.
C14_PerDomainFifo ==
    /\ [](\A h \in Handlers :
             /\ Len(handled[h]) <= Len(forwarded)
             /\ handled[h] = SubSeq(forwarded, 1, Len(handled[h])))
    /\ [][\A h \in Handlers :
             /\ Len(handled'[h]) <= Len(handled[h]) + 1
             /\ (handled'[h] # handled[h]) =>
                    \A g \in Handlers \ {h} : handled'[g] = handled[g]]_vars

C14_Witness ==
    /\ Len(forwarded) >= 2
    /\ forwarded[1].ev # forwarded[2].ev
    /\ Len(handled["platform"]) = 2
    /\ Len(handled["profile"]) = 0
    /\ Len(handled["social_graph"]) = 1
    /\ \A h \in Handlers : task_running[h]

\* C15: the writes of one event are all-or-nothing: a step that inserts a
\* user-level block row also appends its profile event-log entry, a step that
\* changes the follow edges also appends the social-graph log entry and leaves
\* the counters of every profile equal to its edges, and a step that changes
\* the memberships also appends the platform and the profile log entries.
C15_PerEventAtomicity ==
    [][/\ (BagCardinality(profiles_blocked') > BagCardinality(profiles_blocked))
            => profile_events' = profile_events + 1
       /\ (social_graph_relationships' # social_graph_relationships)
            => /\ social_graph_events' = social_graph_events + 1
               /\ \A r \in Rows(profiles') :
                      /\ r.following_count =
                             Count(social_graph_relationships',
                                   {x \in Rows(social_graph_relationships') :
                                       x.follower_address = r.profile_id})
                      /\ r.followers_count =
                             Count(social_graph_relationships',
                                   {x \in Rows(social_graph_relationships') :
                                       x.following_address = r.profile_id})
       /\ (platform_memberships' # platform_memberships)
            => /\ platform_events' = platform_events + 1
               /\ profile_events' = profile_events + 1]_vars

\* the fields of the typed event that a decoding is compared on
ListedFields(ev) ==
    <<ev.profile_id, ev.owner_address, ev.username, ev.display_name, ev.bio,
      ev.profile_photo, ev.cover_photo>>

\* C16: a ProfileCreated payload that carries its profile_id, received flat,
\* wrapped in fields, wrapped in content.fields, or flat with bio as a Move
\* option (vec of one object with a string member), decodes to the same
\* profile_id, owner_address, username, display_name, bio and photos as its
\* flat plain encoding does.
C16_DecoderFallbackCoverage ==
    (/\ payload.profile_id # None
     /\ \/ encoding.nesting \in Nestings /\ encoding.bio = "plain"
        \/ encoding.nesting = "flat" /\ encoding.bio = "vec")
    => /\ decoded.ok
       /\ ListedFields(decoded.event) =
              ListedFields(decode(Encode(payload,
                                         [nesting |-> "flat", bio |-> "plain"])).event)

\* C17: an event whose primary id is found under no accepted key is skipped:
\* no profile row with an empty or placeholder id appears, and a payload
\* without profile_id leaves the profiles table as it was.
C17_SoftDecodeFailure ==
    /\ \A r \in Rows(profiles) : r.profile_id \notin {"", "unknown"}
    /\ payload.profile_id = None /\ encoding.nesting \in Nestings
           => profiles = EmptyBag

\* C18: every platform_moderators row refers to an existing platform, and a
\* ModeratorAdded event is never dropped: after it is processed the moderator
\* row exists, under a platform that exists (an unapproved placeholder when
\* the platform was unknown).
C18_ModeratorParent ==
    /\ [](\A m \in Rows(platform_moderators) : PlatformExists(m.platform_id))
    /\ [][(last'.type = "ModeratorAdded" /\ platform_events' # platform_events)
            => /\ \E m \in Rows(platform_moderators') :
                      /\ m.platform_id = last'.platform_id
                      /\ m.moderator_address = last'.a
               /\ \E r \in Rows(platforms') : r.platform_id = last'.platform_id
               /\ ~PlatformExists(last'.platform_id)
                    => \E r \in Rows(platforms') :
                           /\ r.platform_id = last'.platform_id
                           /\ ~r.is_approved]_vars

C18_Witness ==
    /\ last.type = "ModeratorAdded"
    /\ outcome = "placeholder"
    /\ \E m \in Rows(platform_moderators) :
           /\ m.platform_id = last.platform_id
           /\ m.moderator_address = last.a
    /\ \E r \in Rows(platforms) : r.platform_id = last.platform_id /\ ~r.is_approved

\* C19: every platform_blocked_profiles row refers to an existing platform.
C19_BlockedProfileParent ==
    \A b \in Rows(platform_blocked_profiles) : PlatformExists(b.platform_id)

\* C20: at-least-once delivery within a session: every event the chain emits
\* after the listener started is eventually forwarded to the handlers, also
\* an event that shares its timestamp with a forwarded one, an event without
\* a timestamp, and an event beyond one poll's batch.
C20_AtLeastOnceDelivery ==
    \A i \in 1..MaxChainEvents :
        (Len(chain) >= i) ~> (\E j \in 1..Len(forwarded) : forwarded[j].event_id = i)

\* C21: the progress row of the profile listener holds the position of the
\* event applied successfully last: a step in which the listener took an event
\* whose processing failed leaves the progress row as it was.
C21_ProgressOnlyOnSuccess ==
    [][(/\ handled'["profile"] # handled["profile"]
        /\ fault' \in {"decode", "database"}
        /\ outcome' = "error")
       => indexer_progress' = indexer_progress]_vars

\* C22: resume from progress: once the indexer stays up, every event that the
\* chain emitted while the indexer was down is eventually forwarded to the
\* handlers.
C22_ResumeFromProgress ==
    <>[](session \in {"ws", "polling"})
        => \A i \in 1..MaxChainEvents :
               (i \in missed) ~> (\E j \in 1..Len(forwarded) : forwarded[j].event_id = i)

\* C23: Follow is log-first: every step that processes a Follow event appends
\* exactly one row to the social-graph event log and reports success; when
\* the follower or the followed profile has no row, the relationship table
\* and the profile counters are left as they were.
C23_FollowLogFirst ==
    [][(last'.type = "Follow" /\ <<tables, logs, history>>' # <<tables, logs, history>>)
       => /\ social_graph_events' = social_graph_events + 1
          /\ outcome' # "error"
          /\ (~ProfileExists(last'.profile_id) \/ ~ProfileExists(last'.a))
               => /\ social_graph_relationships' = social_graph_relationships
                  /\ profiles' = profiles]_vars

C23_Witness ==
    /\ last.type = "Follow"
    /\ outcome \in {"follower_not_found", "following_not_found"}
    /\ social_graph_events = 2
    /\ profiles # EmptyBag
    /\ social_graph_relationships = EmptyBag

\* C24: a UserJoinedPlatform event rejected by a gate (the platform has no
\* approved row; else the profile has a block row of the platform) appends
\* exactly one row to the platform event log and changes nothing else: no
\* table, no profile event-log entry.  The approval gate is checked first.
C24_RejectedJoinIsLogged ==
    [][(/\ last'.type = "UserJoinedPlatform"
        /\ <<tables, logs, history>>' # <<tables, logs, history>>
        /\ \/ ~\E r \in Rows(platforms) :
                  r.platform_id = last'.platform_id /\ r.is_approved
           \/ \E b \in Rows(platform_blocked_profiles) :
                  b.platform_id = last'.platform_id /\ b.profile_id = last'.profile_id)
       => /\ platform_events' = platform_events + 1
          /\ tables' = tables
          /\ profile_events' = profile_events
          /\ social_graph_events' = social_graph_events
          /\ outcome' = IF \E r \in Rows(platforms) :
                              r.platform_id = last'.platform_id /\ r.is_approved
                        THEN "ignored_blocked" ELSE "ignored_not_approved"]_vars

C24_Witness ==
    /\ last.type = "UserJoinedPlatform"
    /\ outcome = "ignored_blocked"
    /\ \E r \in Rows(platforms) : r.platform_id = last.platform_id /\ r.is_approved
    /\ \E b \in Rows(platform_blocked_profiles) :
           b.platform_id = last.platform_id /\ b.profile_id = last.profile_id
    /\ platform_memberships = EmptyBag
    /\ profile_events = 0
    /\ platform_events >= 4

\* C25: a UserJoinedPlatform event that passes both gates leaves exactly one
\* membership row for its (platform, profile) pair and appends one entry to
\* the profile event log, also when the same join was processed before.
C25_JoinOnceAndLogged ==
    [][(/\ last'.type = "UserJoinedPlatform"
        /\ <<tables, logs, history>>' # <<tables, logs, history>>
        /\ \E r \in Rows(platforms) : r.platform_id = last'.platform_id /\ r.is_approved
        /\ ~\E b \in Rows(platform_blocked_profiles) :
               b.platform_id = last'.platform_id /\ b.profile_id = last'.profile_id)
       => /\ Count(platform_memberships',
                   {m \in Rows(platform_memberships') :
                       m.platform_id = last'.platform_id
                       /\ m.profile_id = last'.profile_id}) = 1
          /\ profile_events' = profile_events + 1]_vars

\* C26: after a UserLeftPlatform event no membership row of its (platform,
\* profile) pair exists and one entry was appended to the profile event log,
\* whatever the approval of the platform and the blocks of the profile.
C26_LeaveUngated ==
    [][(/\ last'.type = "UserLeftPlatform"
        /\ <<tables, logs, history>>' # <<tables, logs, history>>)
       => /\ ~\E m \in Rows(platform_memberships') :
                 m.platform_id = last'.platform_id /\ m.profile_id = last'.profile_id
          /\ profile_events' = profile_events + 1]_vars

\* C27: after an Unfollow(A, B) event the relationship table holds no (A, B)
\* row and the counters of the profile rows of A and B equal the aggregate
\* counts of the relationship table; when no (A, B) row existed before, the
\* appended social-graph event-log row is the only change.
C27_UnfollowRemovesEdge ==
    [][(last'.type = "Unfollow" /\ <<tables, logs, history>>' # <<tables, logs, history>>)
       => /\ social_graph_events' = social_graph_events + 1
          /\ ~\E x \in Rows(social_graph_relationships') :
                 x.follower_address = last'.profile_id /\ x.following_address = last'.a
          /\ \A r \in Rows(profiles') :
                 r.profile_id \in {last'.profile_id, last'.a}
                     => /\ r.following_count =
                               Count(social_graph_relationships',
                                     {x \in Rows(social_graph_relationships') :
                                         x.follower_address = r.profile_id})
                        /\ r.followers_count =
                               Count(social_graph_relationships',
                                     {x \in Rows(social_graph_relationships') :
                                         x.following_address = r.profile_id})
          /\ (~\E x \in Rows(social_graph_relationships) :
                  x.follower_address = last'.profile_id /\ x.following_address = last'.a)
               => /\ tables' = tables
                  /\ platform_events' = platform_events
                  /\ profile_events' = profile_events]_vars

\* C28: every UserBlock event with non-empty blocker and blocked ids leaves the
\* block row of the pair with is_blocked = true and unblocked_at cleared, and
\* appends one entry to the profile event log, also when the row of the pair
\* existed before (block, unblock, block again).
C28_BlockSetsFlagAndLogs ==
    [][(/\ last'.type = "UserBlock"
        /\ last'.profile_id # "" /\ last'.a # ""
        /\ <<tables, logs, history, indexer_progress>>'
               # <<tables, logs, history, indexer_progress>>)
       => /\ \E r \in Rows(profiles_blocked') :
                 /\ r.blocker_profile_id = last'.profile_id
                 /\ r.blocked_profile_id = last'.a
          /\ \A r \in Rows(profiles_blocked') :
                 (r.blocker_profile_id = last'.profile_id /\ r.blocked_profile_id = last'.a)
                     => r.is_blocked /\ r.unblocked_at = None
          /\ profile_events' = profile_events + 1]_vars

\* C29: a UserUnblock event with non-empty ids for a pair that has no block
\* row creates no row and succeeds; for a pair with a row it leaves the row
\* with is_blocked = false and unblocked_at set; either way one entry is
\* appended to the profile event log.
C29_UnblockMissingRowIsOk ==
    [][(/\ last'.type = "UserUnblock"
        /\ last'.profile_id # "" /\ last'.a # ""
        /\ <<tables, logs, history, indexer_progress>>'
               # <<tables, logs, history, indexer_progress>>)
       => /\ outcome' = "unblocked"
          /\ (~\E r \in Rows(profiles_blocked) :
                  r.blocker_profile_id = last'.profile_id /\ r.blocked_profile_id = last'.a)
               => profiles_blocked' = profiles_blocked
          /\ \A r \in Rows(profiles_blocked') :
                 (r.blocker_profile_id = last'.profile_id /\ r.blocked_profile_id = last'.a)
                     => ~r.is_blocked /\ r.unblocked_at # None
          /\ BagCardinality(profiles_blocked') = BagCardinality(profiles_blocked)
          /\ profile_events' = profile_events + 1]_vars

C29_Witness ==
    /\ last.type = "UserUnblock"
    /\ last.profile_id # "" /\ last.a # ""
    /\ outcome = "unblocked"
    /\ profiles_blocked = EmptyBag
    /\ profile_events = 1

C31_UnknownTypeIsDropped ==
    [][(/\ ~HasKnownSuffix(event_type')
        /\ <<tables, logs, history, indexer_progress, event_type>>'
               # <<tables, logs, history, indexer_progress, event_type>>
        /\ now' = now)
       => /\ tables' = tables
          /\ logs' = logs
          /\ outcome' = "dropped"]_vars

\* C32: ProfileUpdated is a partial update.  The step that processes it for
\* an existing profile leaves the number of rows unchanged, leaves every other
\* row as it was, and in the profile's row overwrites display_name and bio
\* only where the event carries them: a field the event lacks keeps its
\* stored value.  For a profile_id without a row the table does not change.
C32_ProfileUpdatedIsPartial ==
    [][(/\ last'.type = "ProfileUpdated"
        /\ <<tables, logs, history>>' # <<tables, logs, history>>)
       => IF \A r \in Rows(profiles) : r.profile_id # last'.profile_id
          THEN profiles' = profiles
          ELSE /\ BagCardinality(profiles') = BagCardinality(profiles)
               /\ \A r \in Rows(profiles) :
                      IF r.profile_id # last'.profile_id
                      THEN r \in Rows(profiles')
                      ELSE \E q \in Rows(profiles') :
                               /\ q.display_name = IF last'.a = "-" THEN r.display_name
                                                   ELSE Some(last'.a)
                               /\ q.bio = IF last'.b = "-" THEN r.bio ELSE Some(last'.b)
                               /\ q.sensitive_data_updated_at = last'.ts
                               /\ q = [r EXCEPT !.display_name = q.display_name,
                                                !.bio = q.bio,
                                                !.sensitive_data_updated_at = last'.ts]]_vars

C32_Witness ==
    /\ last.type = "ProfileUpdated"
    /\ outcome = "updated"
    /\ last.a = "-"
    /\ last.b = "hi"
    /\ \E r \in Rows(profiles) :
           /\ r.profile_id = last.profile_id
           /\ r.display_name = Some("Alice")
           /\ r.bio = Some("hi")
           /\ r.sensitive_data_updated_at # None

\* C33: there is at most one platform block row per (platform, profile) pair
\* at any time; a block processed by the platform handler leaves exactly one
\* row for its pair, carrying the blocker and the time of this event (a
\* duplicate block replaces the row), and an unblock leaves none.
C33_OneBlockRowPerPair ==
    [][/\ \A p \in PlatformIds, u \in ProfileIds :
              Count(platform_blocked_profiles',
                    {r \in Rows(platform_blocked_profiles') :
                         r.platform_id = p /\ r.profile_id = u}) <= 1
       /\ (/\ platform_events' = platform_events + 1
           /\ last'.type \in {"ProfileBlocked", "ProfileUnblocked"})
          => LET pair == {r \in Rows(platform_blocked_profiles') :
                              /\ r.platform_id = last'.platform_id
                              /\ r.profile_id = last'.profile_id}
             IN  /\ platform_blocked_profiles' \sqsubseteq
                        (platform_blocked_profiles
                            (+) SetToBag({[platform_id |-> last'.platform_id,
                                           profile_id |-> last'.profile_id,
                                           blocked_by |-> last'.a, created_at |-> now]}))
                 /\ IF last'.type = "ProfileBlocked"
                    THEN pair = {[platform_id |-> last'.platform_id,
                                  profile_id |-> last'.profile_id,
                                  blocked_by |-> last'.a, created_at |-> now]}
                    ELSE pair = {}]_vars

C33_Witness ==
    /\ last.type = "ProfileBlocked"
    /\ outcome = "refreshed"
    /\ now = 1
    /\ Count(platform_blocked_profiles,
             {r \in Rows(platform_blocked_profiles) :
                  r.platform_id = last.platform_id /\ r.profile_id = last.profile_id}) = 1
    /\ \E r \in Rows(platform_blocked_profiles) :
           /\ r.platform_id = last.platform_id /\ r.profile_id = last.profile_id
           /\ r.created_at = 1

\* C34: the event logs are append-only and every accepted raw event adds one
\* row to the log of its domain (platform events, social-graph events,
\* profile events), a redelivered event included.
C34_LogsAppendOnly ==
    [][/\ platform_events' >= platform_events
       /\ social_graph_events' >= social_graph_events
       /\ profile_events' >= profile_events
       /\ (/\ outcome' # "error"
           /\ <<tables, logs, history, indexer_progress>>'
                  # <<tables, logs, history, indexer_progress>>)
          => /\ last'.type \in {"Follow", "Unfollow"}
                  => social_graph_events' = social_graph_events + 1
             /\ last'.type \in {"ProfileCreated", "UserBlock", "UserUnblock"}
                  => profile_events' = profile_events + 1
             /\ last'.type \in {"PlatformCreated", "PlatformUpdated", "ModeratorAdded",
                                "ModeratorRemoved", "ProfileBlocked", "ProfileUnblocked",
                                "PlatformApprovalChanged", "UserJoinedPlatform",
                                "UserLeftPlatform"}
                  => platform_events' = platform_events + 1]_vars

\* C35: every user-level block row has is_blocked = true exactly when its
\* unblocked_at is empty; after a UserBlock of a pair its row exists and is
\* blocked, after a UserUnblock its rows are not blocked, and an event of one
\* pair leaves the rows of every other pair as they were - so is_blocked tells
\* whether the last event of the pair was a UserBlock.
C35_BlockFlagFollowsLastEvent ==
    [][/\ \A r \in Rows(profiles_blocked') : r.is_blocked <=> (r.unblocked_at = None)
       /\ (/\ last'.type \in {"UserBlock", "UserUnblock"}
           /\ outcome' \notin {"skipped", "error"}
           /\ <<tables, logs, history, indexer_progress>>'
                  # <<tables, logs, history, indexer_progress>>)
          => LET pair(t) == {r \in Rows(t) : /\ r.blocker_profile_id = last'.profile_id
                                             /\ r.blocked_profile_id = last'.a}
             IN  /\ \A r \in pair(profiles_blocked') :
                        r.is_blocked <=> (last'.type = "UserBlock")
                 /\ last'.type = "UserBlock" => pair(profiles_blocked') # {}
                 /\ Rows(profiles_blocked) \ pair(profiles_blocked)
                        = Rows(profiles_blocked') \ pair(profiles_blocked')]_vars

C35_Witness ==
    /\ last.type = "UserBlock"
    /\ outcome = "inserted"
    /\ \E r \in Rows(profiles_blocked) :
           /\ r.blocker_profile_id = last.profile_id
           /\ r.blocked_profile_id = last.a
           /\ r.is_blocked
           /\ r.unblocked_at = None
    /\ \E r \in Rows(profiles_blocked) :
           /\ <<r.blocker_profile_id, r.blocked_profile_id>> # <<last.profile_id, last.a>>
           /\ ~r.is_blocked
           /\ r.unblocked_at = Some(1)

\* C36: a ProfileCreated processed for a profile_id that already has a row
\* leaves that profile's followers_count and following_count as they were,
\* whatever follows and unfollows were processed before it.
C36_RecreateKeepsCounts ==
    [][(/\ last'.type = "ProfileCreated"
        /\ <<tables, logs, history, indexer_progress>>'
               # <<tables, logs, history, indexer_progress>>)
       => \A r \in Rows(profiles) :
              r.profile_id = last'.profile_id
                  => \E q \in Rows(profiles') :
                         /\ q.profile_id = r.profile_id
                         /\ q.followers_count = r.followers_count
                         /\ q.following_count = r.following_count]_vars

C36_Witness ==
    /\ last.type = "ProfileCreated"
    /\ outcome = "updated"
    /\ \E r \in Rows(profiles) :
           /\ r.profile_id = last.profile_id
           /\ r.followers_count = 1
           /\ r.following_count = 1
    /\ social_graph_relationships # EmptyBag

\* C37: a PlatformApprovalChanged for a platform_id without a platform row
\* changes no table (it is only logged) and is not applied later: the row a
\* later PlatformCreated inserts is unapproved, and a platform row is approved
\* only if an approval with is_approved = true was processed while its row
\* existed.
C37_ApprovalOfMissingPlatformIsLost ==
    [][/\ (/\ last'.type = "PlatformApprovalChanged"
           /\ platform_events' = platform_events + 1
           /\ \A r \in Rows(platforms) : r.platform_id # last'.platform_id)
          => /\ tables' = tables
             /\ <<social_graph_events, profile_events>>'
                    = <<social_graph_events, profile_events>>
       /\ (/\ last'.type = "PlatformCreated"
           /\ platform_events' = platform_events + 1
           /\ \A r \in Rows(platforms) : r.platform_id # last'.platform_id)
          => \A r \in Rows(platforms') :
                 r.platform_id = last'.platform_id => ~r.is_approved
       /\ \A r \in Rows(platforms') :
              r.is_approved => r.platform_id \in everApproved']_vars

C37_Witness ==
    /\ last.type = "PlatformApprovalChanged"
    /\ last.flag
    /\ outcome = "not_found"
    /\ platform_events = 1
    /\ platforms = EmptyBag
    /\ everApproved = {}

\* C38: an unblock lifts the block.  After the platform handler processed
\* ProfileUnblockedByPlatform(X, P) no block row of (X, P) remains, and a
\* UserJoinedPlatform(P, X) processed next, X being approved, leaves the
\* membership row of (X, P) in place.
C38_UnblockLiftsBlock ==
    [][/\ (/\ last'.type = "ProfileUnblocked"
           /\ platform_events' = platform_events + 1)
          => \A b \in Rows(platform_blocked_profiles') :
                 ~(b.platform_id = last'.platform_id /\ b.profile_id = last'.profile_id)
       /\ (/\ last.type = "ProfileUnblocked"
           /\ last'.type = "UserJoinedPlatform"
           /\ last'.platform_id = last.platform_id
           /\ last'.profile_id = last.profile_id
           /\ platform_events' = platform_events + 1
           /\ \E r \in Rows(platforms) : r.platform_id = last.platform_id /\ r.is_approved)
          => /\ outcome' \in {"joined", "already_member"}
             /\ Count(platform_memberships',
                      {m \in Rows(platform_memberships') :
                           /\ m.platform_id = last'.platform_id
                           /\ m.profile_id = last'.profile_id}) = 1]_vars

C38_Witness ==
    /\ last.type = "ProfileUnblocked"
    /\ outcome = "unblocked"
    /\ \E r \in Rows(platforms) : r.platform_id = last.platform_id /\ r.is_approved
    /\ \A b \in Rows(platform_blocked_profiles) :
           ~(b.platform_id = last.platform_id /\ b.profile_id = last.profile_id)
    /\ \A m \in Rows(platform_memberships) :
           ~(m.platform_id = last.platform_id /\ m.profile_id = last.profile_id)

\* C39: the listener forwards one event at a time over bounded channels.  The
\* sends happen in registration order, event after event: no send of a later
\* event precedes a send of an earlier one.  A send to a channel whose
\* receiver is gone only logs an error and the loop goes on with the next
\* handler.  While the channel of the handler in turn is full, nothing is
\* delivered to any handler; no channel ever holds more than its capacity.
C39_SequentialBlockingForward ==
    [][/\ \A h \in Handlers : Len(rx'[h]) <= ChannelCapacity
       /\ \A i \in 1..Len(send_log') :
              LET a == send_log'[i]
              IN  IF i = 1 THEN a.handler = HandlerName[1]
                  ELSE LET b == send_log'[i - 1]
                       IN  \/ /\ a.event_id = b.event_id
                              /\ \E k \in 1..(Len(HandlerName) - 1) :
                                     /\ b.handler = HandlerName[k]
                                     /\ a.handler = HandlerName[k + 1]
                           \/ /\ a.event_id > b.event_id
                              /\ b.handler = HandlerName[Len(HandlerName)]
                              /\ a.handler = HandlerName[1]
       /\ (/\ sending # NotSending
           /\ ~task_running[HandlerName[sending.next]]
           /\ send_log' # send_log)
          => /\ rx' = rx
             /\ send_log'[Len(send_log')].result = "error"
             /\ send_log'[Len(send_log')].handler = HandlerName[sending.next]
             /\ sending' = IF sending.next = Len(HandlerName) THEN NotSending
                           ELSE [sending EXCEPT !.next = @ + 1]
       /\ (/\ sending # NotSending
           /\ task_running[HandlerName[sending.next]]
           /\ Len(rx[HandlerName[sending.next]]) = ChannelCapacity)
          => /\ send_log' = send_log
             /\ sending' = sending
             /\ cursor' = cursor
             /\ \A h \in Handlers : Len(rx'[h]) <= Len(rx[h])]_vars

C39_Witness ==
    /\ sending # NotSending
    /\ task_running[HandlerName[sending.next]]
    /\ Len(rx[HandlerName[sending.next]]) = ChannelCapacity
    /\ cursor <= Len(chain)
    /\ \E i \in 1..(Len(send_log) - 1) :
           /\ send_log[i].result = "error"
           /\ send_log[i + 1].result = "sent"
           /\ send_log[i + 1].event_id = send_log[i].event_id

\* C40: a PlatformCreated for a platform_id that already has a row (a
\* placeholder made by ModeratorAdded included) updates descriptive fields
\* only: the row keeps its developer_address, created_at and approval, takes
\* the event's name, no row is added, and the moderators are left as they
\* were - the event's developer is not added.
C40_RecreateKeepsDeveloper ==
    [][(/\ last'.type = "PlatformCreated"
        /\ platform_events' = platform_events + 1
        /\ \E r \in Rows(platforms) : r.platform_id = last'.platform_id)
       => /\ platform_moderators' = platform_moderators
          /\ BagCardinality(platforms') = BagCardinality(platforms)
          /\ \A r \in Rows(platforms) :
                 IF r.platform_id # last'.platform_id THEN r \in Rows(platforms')
                 ELSE \E q \in Rows(platforms') :
                          /\ q.developer_address = r.developer_address
                          /\ q.name = last'.b
                          /\ q = [r EXCEPT !.name = q.name, !.updated_at = q.updated_at]]_vars

C40_Witness ==
    /\ last.type = "PlatformCreated"
    /\ outcome = "updated"
    /\ \E r \in Rows(platforms) :
           /\ r.platform_id = last.platform_id
           /\ r.developer_address # last.a
           /\ r.name = last.b
    /\ platform_moderators # EmptyBag
    /\ \A m \in Rows(platform_moderators) : m.moderator_address # last.a

====
